---- MODULE Spec2Model ----
(***************************************************************************)
(* Model of the BushSEC Bed Toolkit tool framework (V0.2.1):               *)
(*   core/tool_base.py      ToolBase status machine, trackers, validation  *)
(*   utils/error_handler.py the error_handler wrapper and ErrorHandler     *)
(*   tools/*.py             the three concrete tools' lifecycle hooks      *)
(* A tool is driven by public calls.  initialize/execute/cleanup hand      *)
(* control to a hook of the variant (_initialize/_execute/_cleanup); while *)
(* a hook of an arbitrary variant runs it may call the tool's public       *)
(* methods again, so a call in flight is a frame on `stack`.               *)
(***************************************************************************)
EXTENDS Integers, Sequences, FiniteSets, TLC

\* ------------------------------------------------------------------ bounds
MaxDepth == 1     \* calls in flight at once (nesting through hooks)
MaxTime  == 1     \* readings of time.time() distinguished by the model
MaxCount == 1     \* largest current a caller passes to update_progress (of MaxCount + 1)
MaxErrors == 4    \* errors handled between two clears of the statistics
MaxOverflow == 2  \* errors recorded beyond the history limit between two clears
MaxThreads == 2   \* threads of the target process
MaxData == 5      \* bytes of raw data in a section searched for a code cave
MaxStack == 6     \* nested load_plugin calls the interpreter's stack has room for
MaxEdits == 1      \* times the source file of a plugin is saved again
MaxPayload == 3   \* bytes of payload given to the new-section strategy

\* --------------------------------------------------------- plain Python data
\* Python values are tagged with their type; a dict's val is a function.
Str(s)  == [type |-> "str",  val |-> s]
Bool(b) == [type |-> "bool", val |-> IF b THEN "True" ELSE "False"]
Dict(f) == [type |-> "dict", val |-> f]
EmptyDict == Dict(<<>>)

\* The value of self.config: the ConfigManager singleton or a plain mapping.
ConfigManagerObj == [type |-> "ConfigManager", val |-> <<>>]
NoneValue == [type |-> "NoneType", val |-> <<>>]

\* Python truthiness of the values above (`if config:`, `if not self.config`).
Truthy(v) ==
  CASE v.type = "NoneType" -> FALSE
    [] v.type = "dict"     -> DOMAIN v.val # {}
    [] v.type = "str"      -> v.val # ""
    [] v.type = "bool"     -> v.val = "True"
    [] OTHER               -> TRUE

\* -------------------------------------------------------------- tool status
ToolStatus == {"uninitialized", "initializing", "ready", "running",
               "paused", "error", "cleaning", "cleaned"}

\* ------------------------------------------------------------ error taxonomy
NoError == [cls |-> "None", error_code |-> "", severity |-> "", category |-> "", msg |-> ""]

BedToolsError(cls, code, severity, category, msg) ==
  [cls |-> cls, error_code |-> code, severity |-> severity, category |-> category, msg |-> msg]

ValidationError(msg) == BedToolsError("ValidationError", "ERR_VALIDATION", "WARNING", "VALIDATION", msg)
SecurityError(msg)   == BedToolsError("SecurityError", "ERR_SECURITY", "CRITICAL", "SECURITY", msg)
PluginError(msg)     == BedToolsError("PluginError", "ERR_PLUGIN", "ERROR", "PLUGIN", msg)
OperationError(msg)  == BedToolsError("OperationError", "ERR_OPERATION", "ERROR", "BUSINESS", msg)

\* An exception that is not a BedToolsError (TypeError, OSError, ValueError...).
BuiltinError(cls, msg) ==
  [cls |-> cls, error_code |-> "", severity |-> "", category |-> "", msg |-> msg]

\* ------------------------------------------------- outcome of running a body
Returned(v) == [kind |-> "return", value |-> v, exc |-> NoError]
Raised(e)   == [kind |-> "raise",  value |-> NoneValue, exc |-> e]

\* error.details: `details or {}`; no raise of the toolkit passes details.
Details(e) == EmptyDict

\* The structured result the handlers of ErrorHandler build. The result of
\* the default handler has no "details" key: result.get("details") is None.
ErrorResult(e, type, code, severity, category) ==
  [type |-> "error_result",
   val  |-> [status |-> "error", error_code |-> code, message |-> e.msg,
             type |-> type, severity |-> severity, category |-> category,
             details |-> IF type = "unknown" THEN NoneValue ELSE Details(e)]]

HandleError_NoOperationHandler(e, context) ==
  CASE e.cls = "ValidationError" -> ErrorResult(e, "validation", e.error_code, e.severity, e.category)
    [] e.cls = "SecurityError"   -> ErrorResult(e, "security", e.error_code, e.severity, e.category)
    [] e.cls = "PluginError"     -> ErrorResult(e, "plugin", e.error_code, e.severity, e.category)
    [] OTHER                     -> ErrorResult(e, "unknown", "ERR_UNKNOWN", "ERROR", "SYSTEM")

\* ErrorHandler.handle_error: dispatch on the class name, default handler
\* for every other class.
HandleError(e, context) ==
  CASE e.cls = "ValidationError" -> ErrorResult(e, "validation", e.error_code, e.severity, e.category)
    [] e.cls = "SecurityError"   -> ErrorResult(e, "security", e.error_code, e.severity, e.category)
    [] e.cls = "PluginError"     -> ErrorResult(e, "plugin", e.error_code, e.severity, e.category)
    [] e.cls = "OperationError"  -> ErrorResult(e, "operation", e.error_code, e.severity, e.category)
    [] OTHER                     -> ErrorResult(e, "unknown", "ERR_UNKNOWN", "ERROR", "SYSTEM")

IsErrorResult(v) == v.type = "error_result"

error_handler_Reraise(outcome, fname) == outcome

\* The error_handler decorator: what the caller of a wrapped function gets.
error_handler(outcome, fname) ==
  IF outcome.kind = "raise"
    THEN Returned(HandleError(outcome.exc, fname))
    ELSE outcome

\* ------------------------------------------------------------ config schemas
\* A schema node: its "type" tag, optional "values" allow-list, optional
\* nested "schema", and the "required" flag (absent means required).
StrEnum(vals) == [type |-> "str", hasValues |-> TRUE, values |-> vals,
                  hasSchema |-> FALSE, schema |-> <<>>, required |-> TRUE]
BoolNode      == [type |-> "bool", hasValues |-> FALSE, values |-> {},
                  hasSchema |-> FALSE, schema |-> <<>>, required |-> TRUE]
DictNode(sch) == [type |-> "dict", hasValues |-> FALSE, values |-> {},
                  hasSchema |-> TRUE, schema |-> sch, required |-> TRUE]

ObfuscatorSchema ==
  [obfuscation |-> DictNode(
     [level       |-> StrEnum({"basic", "advanced", "extreme"}),
      target_type |-> StrEnum({"shellcode", "pe", "script"})]),
   techniques |-> DictNode(
     [encryption        |-> StrEnum({"xor", "custom_xor", "rc4", "aes"}),
      encoding          |-> StrEnum({"base64", "hex", "custom"}),
      junk_code         |-> BoolNode,
      dead_code         |-> BoolNode,
      flow_obfuscation  |-> BoolNode,
      string_encryption |-> BoolNode,
      api_hashing       |-> BoolNode]),
   protection |-> DictNode(
     [anti_debug      |-> BoolNode,
      anti_vm         |-> BoolNode,
      anti_dump       |-> BoolNode,
      integrity_check |-> BoolNode])]

PEInjectorSchema ==
  [injection |-> DictNode(
     [method         |-> StrEnum({"new_section", "code_cave", "existing_section"}),
      encryption     |-> StrEnum({"none", "xor", "custom_xor", "rc4", "aes"}),
      preserve_entry |-> BoolNode,
      backup         |-> BoolNode]),
   anti_analysis |-> DictNode(
     [anti_debug  |-> BoolNode,
      anti_vm     |-> BoolNode,
      sleep_check |-> BoolNode]),
   obfuscation |-> DictNode(
     [level             |-> StrEnum({"none", "basic", "advanced", "extreme"}),
      junk_code         |-> BoolNode,
      fake_api          |-> BoolNode,
      string_encryption |-> BoolNode])]

ProcessInjectorSchema ==
  [injection |-> DictNode(
     [method     |-> StrEnum({"classic", "apc", "thread_hijack", "module_load"}),
      encryption |-> StrEnum({"none", "xor", "custom_xor", "rc4"})]),
   process |-> DictNode(
     [filter_system |-> BoolNode,
      target_arch   |-> StrEnum({"x86", "x64", "any"})]),
   protection |-> DictNode(
     [hide_thread    |-> BoolNode,
      clear_header   |-> BoolNode,
      protect_memory |-> BoolNode])]

\* The default mappings the variants' _initialize build.
ObfuscatorDefault ==
  Dict([obfuscation |-> Dict([level |-> Str("advanced"), target_type |-> Str("shellcode")]),
        techniques  |-> Dict([encryption |-> Str("xor"), encoding |-> Str("base64"),
                              junk_code |-> Bool(TRUE), dead_code |-> Bool(TRUE),
                              flow_obfuscation |-> Bool(TRUE),
                              string_encryption |-> Bool(TRUE), api_hashing |-> Bool(TRUE)]),
        protection  |-> Dict([anti_debug |-> Bool(TRUE), anti_vm |-> Bool(TRUE),
                              anti_dump |-> Bool(TRUE), integrity_check |-> Bool(TRUE)])])

PEInjectorDefault ==
  Dict([injection     |-> Dict([method |-> Str("new_section"), encryption |-> Str("xor"),
                                preserve_entry |-> Bool(TRUE), backup |-> Bool(TRUE)]),
        anti_analysis |-> Dict([anti_debug |-> Bool(TRUE), anti_vm |-> Bool(TRUE),
                                sleep_check |-> Bool(TRUE)]),
        obfuscation   |-> Dict([level |-> Str("advanced"), junk_code |-> Bool(TRUE),
                                fake_api |-> Bool(TRUE), string_encryption |-> Bool(TRUE)])])

ProcessInjectorDefault ==
  Dict([injection  |-> Dict([method |-> Str("classic"), encryption |-> Str("xor")]),
        process    |-> Dict([filter_system |-> Bool(TRUE), target_arch |-> Str("any")]),
        protection |-> Dict([hide_thread |-> Bool(TRUE), clear_header |-> Bool(TRUE),
                             protect_memory |-> Bool(TRUE)])])

\* --------------------------------------------------------------- the variants
\* "Abstract" stands for an arbitrary subclass of ToolBase: no schema, one
\* declared dependency, hooks that may return, raise, or call the tool back.
Variants == {"Abstract", "Obfuscator", "PEInjector", "ProcessInjector"}

config_schema(variant) ==
  CASE variant = "Obfuscator"      -> ObfuscatorSchema
    [] variant = "PEInjector"      -> PEInjectorSchema
    [] variant = "ProcessInjector" -> ProcessInjectorSchema
    [] OTHER                       -> <<>>

dependencies(variant) ==
  CASE variant = "Obfuscator"      -> {}
    [] variant = "PEInjector"      -> {"pefile"}
    [] variant = "ProcessInjector" -> {"psutil"}
    [] OTHER                       -> {"dep"}

default_config(variant) ==
  CASE variant = "Obfuscator"      -> ObfuscatorDefault
    [] variant = "PEInjector"      -> PEInjectorDefault
    [] variant = "ProcessInjector" -> ProcessInjectorDefault
    [] OTHER                       -> EmptyDict

\* ---------------------------------------------------------- schema validation
\* isinstance(value, type_map.get(expected_type, object)); bool is an int.
_validate_type(value, expected_type) ==
  CASE expected_type = "int" -> value.type \in {"int", "bool"}
    [] expected_type \in {"str", "float", "bool", "list", "dict"} -> value.type = expected_type
    [] OTHER -> TRUE

_validate_values(value, valid_values) ==
  value.type = "str" /\ value.val \in valid_values

\* TRUE when _validate_config_schema(config, schema) raises nothing.  A
\* nested schema is entered only after the type check, which the schemas
\* above place on every node that has one.
RECURSIVE _validate_config_schema(_, _)
_validate_config_schema(config, schema) ==
  \A key \in DOMAIN schema :
    LET value_schema == schema[key] IN
    IF key \notin DOMAIN config.val
      THEN ~value_schema.required
      ELSE LET value == config.val[key] IN
           /\ _validate_type(value, value_schema.type)
           /\ value_schema.hasValues => _validate_values(value, value_schema.values)
           /\ value_schema.hasSchema => _validate_config_schema(value, value_schema.schema)

\* ToolBase.validate_config: TRUE without a schema, else whether the
\* recursive check passed (its exception is kept as the last error).
validate_config(variant, config) ==
  IF DOMAIN config_schema(variant) = {}
    THEN TRUE
    ELSE _validate_config_schema(config, config_schema(variant))

\* ------------------------------------------------------ inputs of the model
\* Configs a caller passes to initialize()/validate_config(), by name.
ConfigNames == {"none", "empty", "valid", "other_valid", "missing_section",
                "wrong_type", "bad_value"}

FirstSection(variant) == IF variant = "Obfuscator" THEN "obfuscation" ELSE "injection"
EnumKey(variant)      == IF variant = "Obfuscator" THEN "target_type" ELSE "method"
OtherEnumValue(variant) ==
  CASE variant = "Obfuscator"      -> "pe"
    [] variant = "PEInjector"      -> "code_cave"
    [] OTHER                       -> "apc"

WithValue(cfg, sec, key, v) == [cfg EXCEPT !.val[sec].val[key] = v]
WithoutKey(cfg, k) == Dict([x \in (DOMAIN cfg.val) \ {k} |-> cfg.val[x]])

SampleConfig(variant, name) ==
  IF name = "none" THEN NoneValue
  ELSE IF name = "empty" THEN EmptyDict
  ELSE IF variant = "Abstract"
    THEN Dict([option |-> Str(IF name = "other_valid" THEN "b" ELSE "a")])
  ELSE LET d == default_config(variant)
           sec == FirstSection(variant)
           key == EnumKey(variant) IN
       CASE name = "valid"           -> d
         [] name = "other_valid"     -> WithValue(d, sec, key, Str(OtherEnumValue(variant)))
         [] name = "missing_section" -> WithoutKey(d, sec)
         [] name = "wrong_type"      -> WithValue(d, sec, key, Bool(TRUE))
         [] OTHER                    -> WithValue(d, sec, key, Str("bogus"))

\* Exceptions a hook of an arbitrary variant may raise.
HookErrors == {OperationError("hook failed"), BuiltinError("RuntimeError", "hook failed")}
\* Values _execute of an arbitrary variant may return.
HookValues == {NoneValue, Bool(TRUE), Bool(FALSE)}

\* Positional arguments of execute(): how many, and whether the first one
\* converts with int().
ExecArgs == [nargs : {1, 3}, intLike : BOOLEAN]

\* Where the environment makes the tool's operation fail ("none": nowhere).
FailPoints(variant) ==
  CASE variant = "Obfuscator" ->
         {"none", "input_missing", "empty_result", "write_failed"}
    [] variant = "PEInjector" ->
         {"none", "input_missing", "backup_failed", "parse_failed",
          "strategy_failed", "write_failed"}
    [] variant = "ProcessInjector" ->
         {"none", "input_missing", "pid_missing", "open_failed", "alloc_failed",
          "write_failed", "method_failed"}
    [] OTHER -> {"none"}

\* ------------------------------------------------------------------ trackers
ProgressInfo == [current |-> 0, total |-> 0, message |-> "", details |-> <<>>,
                 start_time |-> 0, last_update_time |-> 0]

ResourceUsage == [memory_usage |-> 0, cpu_usage |-> 0, disk_usage |-> 0,
                  network_usage |-> 0, start_time |-> 0, last_update_time |-> 0]

\* dict.update
DictUpdate(d, u) ==
  [k \in (DOMAIN d) \cup (DOMAIN u) |-> IF k \in DOMAIN u THEN u[k] ELSE d[k]]

ProgressUpdate(p, current, total, message, details, now) ==
  [p EXCEPT !.current = current, !.total = total, !.message = message,
            !.details = DictUpdate(p.details, details), !.last_update_time = now]

ProgressStart(p, now) == [p EXCEPT !.start_time = now, !.last_update_time = now]

ResourceUpdate(r, memory, cpu, disk, network, now) ==
  [r EXCEPT !.memory_usage = memory, !.cpu_usage = cpu, !.disk_usage = disk,
            !.network_usage = network, !.last_update_time = now]

\* ------------------------------------------- the concrete tools' operations
\* An operation's run: how its body ends and the last progress checkpoint
\* it reported (0: none).
Run(outcome, checkpoint) == [outcome |-> outcome, checkpoint |-> checkpoint]

Subscriptable(cfg) == cfg.type = "dict"
NotSubscriptable == BuiltinError("TypeError", "object is not subscriptable")

\* Obfuscator.obfuscate without its wrapper.
obfuscate(cfg, fail) ==
  IF fail = "input_missing" THEN Run(Raised(OperationError("input file missing")), 0)
  ELSE IF ~Subscriptable(cfg) THEN Run(Raised(NotSubscriptable), 1)
  ELSE IF fail = "empty_result" THEN Run(Raised(OperationError("obfuscation failed")), 1)
  ELSE IF fail = "write_failed" THEN Run(Raised(BuiltinError("OSError", "cannot write output")), 4)
  ELSE Run(Returned(Bool(TRUE)), 5)

\* PEInjector.inject without its wrapper.
pe_inject(cfg, fail) ==
  IF fail = "input_missing" THEN Run(Raised(OperationError("input file missing")), 0)
  ELSE IF ~Subscriptable(cfg) THEN Run(Raised(NotSubscriptable), 0)
  ELSE IF fail = "backup_failed" /\ cfg.val["injection"].val["backup"] = Bool(TRUE)
    THEN Run(Raised(BuiltinError("OSError", "cannot write backup")), 0)
  ELSE IF fail = "parse_failed" THEN Run(Raised(BuiltinError("PEFormatError", "not a PE file")), 1)
  ELSE IF fail = "strategy_failed" THEN Run(Raised(OperationError("injection failed")), 1)
  ELSE IF fail = "write_failed" THEN Run(Raised(BuiltinError("OSError", "cannot write output")), 4)
  ELSE Run(Returned(Bool(TRUE)), 5)

\* ProcessInjector.inject without its wrapper.
process_inject(cfg, fail) ==
  IF fail = "input_missing" THEN Run(Raised(OperationError("shellcode file missing")), 0)
  ELSE IF fail = "pid_missing" THEN Run(Raised(OperationError("no such process")), 0)
  ELSE IF fail = "open_failed" THEN Run(Raised(OperationError("cannot open process")), 1)
  ELSE IF ~Subscriptable(cfg) THEN Run(Raised(NotSubscriptable), 1)
  ELSE IF fail = "alloc_failed" THEN Run(Raised(OperationError("allocation failed")), 2)
  ELSE IF fail = "write_failed" THEN Run(Raised(OperationError("write failed")), 3)
  ELSE IF fail = "method_failed" THEN Run(Raised(OperationError("injection failed")), 4)
  ELSE Run(Returned(Bool(TRUE)), 5)

\* The public, wrapped operation of each concrete tool.
ToolOperation(variant, cfg, fail) ==
  LET run == CASE variant = "Obfuscator" -> obfuscate(cfg, fail)
               [] variant = "PEInjector" -> pe_inject(cfg, fail)
               [] OTHER                  -> process_inject(cfg, fail)
      fname == CASE variant = "Obfuscator" -> "obfuscate" [] OTHER -> "inject"
  IN Run(error_handler(run.outcome, fname), run.checkpoint)

RequiredArgs(variant) ==
  CASE variant = "Obfuscator"      -> 2
    [] variant = "PEInjector"      -> 3
    [] variant = "ProcessInjector" -> 2
    [] OTHER                       -> 0

\* The concrete tools' _execute(*args): argument check, then the operation.
_execute(variant, args, cfg, fail) ==
  IF args.nargs < RequiredArgs(variant)
    THEN Run(Raised(OperationError("missing arguments")), 0)
  ELSE IF variant = "ProcessInjector" /\ ~args.intLike
    THEN Run(Raised(BuiltinError("ValueError", "invalid literal for int()")), 0)
  ELSE ToolOperation(variant, cfg, fail)

\* The concrete tools' _initialize(): install the default mapping when
\* self.config is falsy, then report success.
_initialize_config(variant, cfg) ==
  IF ~Truthy(cfg) THEN default_config(variant) ELSE cfg

\* ----------------------------------------------------------- ToolBase pieces
ExecuteAllowed_AlsoError(st) == st \in {"ready", "error"}

\* The guard at the head of ToolBase.execute.
ExecuteAllowed(st) == st = "ready"

\* ToolBase._check_dependencies with the importable modules given.
_check_dependencies(variant, importable) == dependencies(variant) \subseteq importable

\* ToolBase._check_permission is a stub.
_check_permissions(variant) == TRUE

\* Status ToolBase.initialize leaves after _initialize returned `result`.
StatusAfterInitialize(result) == IF result THEN "ready" ELSE "error"

StatusAfterExecute_AlwaysReady(hook) == "ready"

\* Status ToolBase.execute leaves when _execute ended with `hook`.
StatusAfterExecute(hook) == IF hook.kind = "return" THEN "ready" ELSE "error"

StatusAfterCleanup_AlwaysCleaned(hook) == "cleaned"

\* Status ToolBase.cleanup leaves when _cleanup ended with `hook`.
StatusAfterCleanup(hook) == IF hook.kind = "return" THEN "cleaned" ELSE "error"

\* self._error after the except branch of initialize/execute/cleanup.
ErrorAfterHook(hook, old) == IF hook.kind = "raise" THEN hook.exc ELSE old

\* ============================================================ ConfigManager
\* config/config_manager.py: the process-wide configuration and its file.
ListValue == [type |-> "list", val |-> <<>>]
IntValue(n) == [type |-> "int", val |-> n]
TypeNode(t) == [type |-> t, hasValues |-> FALSE, values |-> {},
                hasSchema |-> FALSE, schema |-> <<>>, required |-> TRUE]

version == "1.0.0"

ConfigManagerSchema ==
  [ui |-> DictNode(
     [theme       |-> StrEnum({"dark", "light"}),
      language    |-> StrEnum({"zh_CN", "en_US"}),
      window_size |-> DictNode([width |-> TypeNode("int"), height |-> TypeNode("int")])]),
   injection |-> DictNode(
     [default_method    |-> StrEnum({"new_section", "code_cave", "existing_section"}),
      encryption_type   |-> StrEnum({"xor", "custom_xor", "rc4", "aes"}),
      obfuscation_level |-> StrEnum({"low", "medium", "high", "extreme"})]),
   process |-> DictNode(
     [refresh_interval      |-> TypeNode("int"),
      show_system_processes |-> BoolNode]),
   security |-> DictNode(
     [backup_files      |-> BoolNode,
      verify_signatures |-> BoolNode,
      log_operations    |-> BoolNode]),
   plugins |-> DictNode(
     [enabled     |-> TypeNode("list"),
      auto_update |-> BoolNode])]

ConfigManagerDefault ==
  Dict([ui |-> Dict([theme |-> Str("dark"), language |-> Str("zh_CN"),
                     window_size |-> Dict([width |-> IntValue(1200), height |-> IntValue(800)])]),
        injection |-> Dict([default_method |-> Str("new_section"),
                            encryption_type |-> Str("xor"),
                            obfuscation_level |-> Str("medium")]),
        process |-> Dict([refresh_interval |-> IntValue(5),
                          show_system_processes |-> Bool(FALSE)]),
        security |-> Dict([backup_files |-> Bool(TRUE), verify_signatures |-> Bool(TRUE),
                           log_operations |-> Bool(TRUE)]),
        plugins |-> Dict([enabled |-> ListValue, auto_update |-> Bool(TRUE)])])

\* ConfigValidator._validate_dict: TRUE when it raises nothing.
RECURSIVE _validate_dict(_, _)
_validate_dict(cfg, schema) ==
  \A key \in DOMAIN schema :
    LET value_schema == schema[key] IN
    IF key \notin DOMAIN cfg.val
      THEN ~value_schema.required
      ELSE LET value == cfg.val[key] IN
           /\ _validate_type(value, value_schema.type)
           /\ value_schema.hasValues => _validate_values(value, value_schema.values)
           /\ value_schema.hasSchema => _validate_dict(value, value_schema.schema)

\* ConfigValidator.validate against the schema of the manager.
validate(cfg) == cfg.type = "dict" /\ _validate_dict(cfg, ConfigManagerSchema)

\* dict.get(key, default)
DictGet(d, key, default) == IF key \in DOMAIN d.val THEN d.val[key] ELSE default

\* ConfigManager.get(key) with its default of None.
get(cfg, key) == DictGet(cfg, key, NoneValue)

\* The settings file: not there, not JSON, or the mapping it holds.
Absent  == [type |-> "absent", val |-> <<>>]
Corrupt == [type |-> "corrupt", val |-> <<>>]

\* A tuple of values, which callers of set can pass as well as a list.
Tuple(elems) == [type |-> "tuple", val |-> elems]

\* What json.load reads back from what json.dump wrote for v: mappings and
\* scalars as they were, lists and tuples alike as lists.
RECURSIVE JsonValue(_)
JsonValue(v) ==
  CASE v.type = "dict" /\ v.val # <<>> ->
         Dict([key \in DOMAIN v.val |-> JsonValue(v.val[key])])
    [] v.type \in {"list", "tuple"} /\ v.val # <<>> ->
         [type |-> "list", val |-> [i \in 1..Len(v.val) |-> JsonValue(v.val[i])]]
    [] v.type = "tuple" -> ListValue
    [] OTHER -> v

\* What save_config writes, as json.load reads it: a copy of the
\* configuration plus "_version".
Persisted(cfg) == JsonValue(Dict(DictUpdate(cfg.val, [_version |-> Str(version)])))

_validate_version_Never(v) == FALSE

_validate_version(v) == v = Str(version)

\* ConfigManager._migrate_config: the defaults overlaid with the old file's
\* values for the keys the defaults have (none of which starts with "_").
_migrate_config_KeepOld(old_config) ==
  Dict([key \in (DOMAIN ConfigManagerDefault.val) \cup (DOMAIN old_config.val) |->
          IF key \in DOMAIN old_config.val THEN old_config.val[key]
                                           ELSE ConfigManagerDefault.val[key]])

_migrate_config(old_config) ==
  Dict([key \in DOMAIN ConfigManagerDefault.val |->
          IF key \in DOMAIN old_config.val THEN old_config.val[key]
                                           ELSE ConfigManagerDefault.val[key]])

\* ConfigManager.save_config without its wrapper: the file afterwards and
\* how the body ended.
save_config(cfg, file, writable) ==
  IF writable
    THEN [file |-> Persisted(cfg), outcome |-> Returned(NoneValue)]
    ELSE [file |-> file, outcome |-> Raised(BuiltinError("OSError", "cannot write settings"))]

load_config_SaveFirst(file, writable) ==
  IF file = Corrupt
    THEN [config |-> ConfigManagerDefault, file |-> file,
          outcome |-> Raised(BuiltinError("JSONDecodeError", "settings file is not JSON"))]
  ELSE LET loaded == IF file = Absent THEN ConfigManagerDefault
                     ELSE IF _validate_version(DictGet(file, "_version", Str("0.0.0")))
                       THEN file
                       ELSE _migrate_config(file) IN
       IF ~validate(loaded)
         THEN [config |-> ConfigManagerDefault, file |-> save_config(loaded, file, writable).file,
               outcome |-> Raised(ValidationError("config validation failed"))]
         ELSE [config |-> loaded, file |-> save_config(loaded, file, writable).file,
               outcome |-> Returned(NoneValue)]

\* ConfigManager.load_config without its wrapper.  The save at its end is a
\* wrapped call: a failed write does not fail the load.
load_config(file, writable) ==
  IF file = Corrupt
    THEN [config |-> ConfigManagerDefault, file |-> file,
          outcome |-> Raised(BuiltinError("JSONDecodeError", "settings file is not JSON"))]
  ELSE LET loaded == IF file = Absent THEN ConfigManagerDefault
                     ELSE IF _validate_version(DictGet(file, "_version", Str("0.0.0")))
                       THEN file
                       ELSE _migrate_config(file) IN
       IF ~validate(loaded)
         THEN [config |-> ConfigManagerDefault, file |-> file,
               outcome |-> Raised(ValidationError("config validation failed"))]
         ELSE [config |-> loaded, file |-> save_config(loaded, file, writable).file,
               outcome |-> Returned(NoneValue)]

\* ---------------------------------------------------------------- listeners
\* A listener is a callable; "failing" raises whenever it is called.
ListenerNames == {"recording", "failing"}
ListenerRaises(l) == l = "failing"

ConfigChangeEvent(key, old_value, new_value) ==
  [key |-> key, old_value |-> old_value, new_value |-> new_value]
NoChangeEvent == ConfigChangeEvent("", NoneValue, NoneValue)

\* One entry of cm_calls.
CalledListener(l, ev) ==
  [call |-> "listener", listener |-> l, event |-> ev, raised |-> ListenerRaises(l)]
CalledSave(writable) ==
  [call |-> "save_config", listener |-> "", event |-> NoChangeEvent, raised |-> ~writable]

_notify_listeners_StopAtFailure(ls, ev) ==
  LET firstBad == IF \E i \in 1..Len(ls) : ListenerRaises(ls[i])
                    THEN CHOOSE i \in 1..Len(ls) :
                           /\ ListenerRaises(ls[i])
                           /\ \A j \in 1..(i - 1) : ~ListenerRaises(ls[j])
                    ELSE Len(ls) IN
  [i \in 1..firstBad |-> CalledListener(ls[i], ev)]

\* ConfigManager.add_listener and remove_listener on the list itself.
add_listener(ls, l) ==
  IF \E i \in 1..Len(ls) : ls[i] = l THEN ls ELSE Append(ls, l)
remove_listener(ls, l) == SelectSeq(ls, LAMBDA x : x # l)

\* Listeners that edit the list when they are called: "leaving" takes itself
\* off it, "inviting" puts "recording" on it.
EditingListeners == {"leaving", "inviting"}
ListenerEdit(l, ls) ==
  CASE l = "leaving"  -> remove_listener(ls, l)
    [] l = "inviting" -> add_listener(ls, "recording")
    [] OTHER          -> ls

\* `for listener in self.listeners`: the loop reads element i of the list as
\* it is at that moment and ends when i is past its end.
RECURSIVE NotifyFrom(_, _, _)
NotifyFrom(ls, i, ev) ==
  IF i > Len(ls)
    THEN [calls |-> <<>>, listeners |-> ls]
    ELSE LET rest == NotifyFrom(ListenerEdit(ls[i], ls), i + 1, ev) IN
         [calls |-> <<CalledListener(ls[i], ev)>> \o rest.calls, listeners |-> rest.listeners]

\* ConfigManager._notify_listeners: every listener the loop reaches, in
\* order, a failure of one being printed and dropped.
_notify_listeners(ls, ev) == NotifyFrom(ls, 1, ev).calls

SetIsNoOp_Never(old_value, value) == FALSE

\* The guard of ConfigManager.set: old_value != value (negated).
SetIsNoOp(old_value, value) == old_value = value

\* Arguments callers pass to set(): whole sections, valid and not, and a
\* dotted name, which is just another top-level key.
UiSection(theme) == [ConfigManagerDefault.val["ui"] EXCEPT !.val["theme"] = Str(theme)]
SetInputs ==
  {[key |-> "ui", value |-> UiSection("dark")],
   [key |-> "ui", value |-> UiSection("light")],
   [key |-> "ui", value |-> UiSection("blue")],
   [key |-> "ui.theme", value |-> Str("blue")]}

\* Settings files the process may find when it starts.
InitialFiles ==
  {Absent, Corrupt,
   Persisted(ConfigManagerDefault),
   Persisted([ConfigManagerDefault EXCEPT !.val["ui"] = UiSection("light")]),
   Dict(DictUpdate([ConfigManagerDefault EXCEPT !.val["ui"] = UiSection("light")].val,
                   [_version |-> Str("0.9.0"), _legacy |-> Bool(TRUE)])),
   Persisted([ConfigManagerDefault EXCEPT !.val["ui"] = UiSection("blue")])}

\* A value set() is given that is no JSON kind.
TupleInputs ==
  {[key |-> "window_position", value |-> Tuple(<<IntValue(10), IntValue(20)>>)]}

\* Settings files of an older version or none: two default sections and a
\* key of its own, a section that does not validate, no version at all.
StaleFiles ==
  {Dict([ui |-> UiSection("light"),
         process |-> Dict([refresh_interval |-> IntValue(9),
                           show_system_processes |-> Bool(TRUE)]),
         legacy_mode |-> Bool(TRUE), _version |-> Str("0.9.0")]),
   Dict([ui |-> UiSection("blue"), _version |-> Str("0.9.0")]),
   Dict([ui |-> UiSection("light"), legacy_mode |-> Bool(TRUE)])}

\* ============================================================ PluginManager
\* plugins/plugin_manager.py: the plugin directory.
PluginNames == {"A", "B", "C"}
\* The order in which names are listed when a message joins them.
PluginSeq == <<"A", "B", "C">>

\* PluginMetadata: the fields of a descriptor the manager acts on.
PluginMetadata(name, load_order, deps, enabled) ==
  [name |-> name, load_order |-> load_order, dependencies |-> deps, enabled |-> enabled]

\* Plugin directories: three independent plugins with load_order 50, 10 and
\* 100; B needing A; a chain C -> B -> A; B needing a disabled A.
Catalogues ==
  {[A |-> PluginMetadata("A", 50, <<>>, TRUE), B |-> PluginMetadata("B", 10, <<>>, TRUE),
    C |-> PluginMetadata("C", 100, <<>>, TRUE)],
   [A |-> PluginMetadata("A", 50, <<>>, TRUE), B |-> PluginMetadata("B", 10, <<"A">>, TRUE),
    C |-> PluginMetadata("C", 100, <<>>, TRUE)],
   [A |-> PluginMetadata("A", 50, <<>>, TRUE), B |-> PluginMetadata("B", 10, <<"A">>, TRUE),
    C |-> PluginMetadata("C", 100, <<"B">>, TRUE)],
   [A |-> PluginMetadata("A", 50, <<>>, FALSE), B |-> PluginMetadata("B", 10, <<"A">>, TRUE),
    C |-> PluginMetadata("C", 100, <<>>, TRUE)]}

\* What the environment makes go wrong during one operation of the manager:
\* nothing, or one thing about one plugin.
Faults == {"descriptor", "module", "class", "init_false", "init_raises", "cleanup_raises"}
NoFault == [plugin |-> "", fault |-> ""]
Environments == {NoFault} \cup [plugin : PluginNames, fault : Faults]
Faulty(env, name, fault) == env.plugin = name /\ env.fault = fault

\* A call of a PluginManager operation in its environment.
Request(op, name, env) == [op |-> op, plugin |-> name, env |-> env]

Range(seq) == {seq[i] : i \in 1..Len(seq)}

\* ", ".join(names)
RECURSIVE JoinNames(_, _)
JoinNames(names, seq) ==
  IF seq = <<>> THEN ""
  ELSE IF Head(seq) \in names
    THEN Head(seq) \o (IF Range(Tail(seq)) \cap names = {} THEN "" ELSE ", ")
         \o JoinNames(names, Tail(seq))
    ELSE JoinNames(names, Tail(seq))

\* ============================================================== ErrorStats
\* utils/error_handler.py: the counters kept by the ErrorHandler.
ErrorStats ==
  [total_errors |-> 0, errors_by_code |-> <<>>, errors_by_severity |-> <<>>,
   errors_by_category |-> <<>>, error_history |-> <<>>, last_error_time |-> NoneValue]

\* d[k] = d.get(k, 0) + 1
Bump(d, k) ==
  [x \in (DOMAIN d) \cup {k} |->
     IF x = k THEN (IF k \in DOMAIN d THEN d[k] ELSE 0) + 1 ELSE d[x]]

\* An error object built at time t (BedToolsError.__init__ reads the clock).
\* Time is logical: the ordinal of the error among those built since the
\* statistics were last cleared.
Stamp(e, t) ==
  [cls |-> e.cls, error_code |-> e.error_code, severity |-> e.severity,
   category |-> e.category, msg |-> e.msg, timestamp |-> t]

RECURSIVE Stamped(_, _)
Stamped(errors, t) ==
  IF errors = <<>> THEN <<>>
  ELSE <<Stamp(Head(errors), t + 1)>> \o Stamped(Tail(errors), t + 1)

\* The entry record_error appends to the history.
error_info(e) ==
  [timestamp |-> e.timestamp, error_code |-> e.error_code, severity |-> e.severity,
   category |-> e.category, message |-> e.msg]

\* Length of the rolling history.
HistoryLimit == 1000

TrimHistory_KeepOldest(history) ==
  IF Len(history) > HistoryLimit
    THEN SubSeq(history, 1, HistoryLimit)
    ELSE history

\* error_history[-1000:] once the history is longer than that
TrimHistory(history) ==
  IF Len(history) > HistoryLimit
    THEN SubSeq(history, Len(history) - HistoryLimit + 1, Len(history))
    ELSE history

record_error_SkipWarnings(stats, e) ==
  [total_errors       |-> IF e.severity = "WARNING" THEN stats.total_errors
                          ELSE stats.total_errors + 1,
   errors_by_code     |-> Bump(stats.errors_by_code, e.error_code),
   errors_by_severity |-> Bump(stats.errors_by_severity, e.severity),
   errors_by_category |-> Bump(stats.errors_by_category, e.category),
   error_history      |-> TrimHistory(Append(stats.error_history, error_info(e))),
   last_error_time    |-> e.timestamp]

\* ErrorStats.record_error
record_error(stats, e) ==
  [total_errors       |-> stats.total_errors + 1,
   errors_by_code     |-> Bump(stats.errors_by_code, e.error_code),
   errors_by_severity |-> Bump(stats.errors_by_severity, e.severity),
   errors_by_category |-> Bump(stats.errors_by_category, e.category),
   error_history      |-> TrimHistory(Append(stats.error_history, error_info(e))),
   last_error_time    |-> e.timestamp]

\* ErrorStats.clear_stats: __init__ again
clear_stats(stats) == ErrorStats

\* isinstance(error, BedToolsError)
IsBedToolsError(e) == e.error_code # ""

\* The statistics after handle_error was given each error of a sequence.
RECURSIVE RecordAll(_, _)
RecordAll(stats, errors) ==
  IF errors = <<>> THEN stats
  ELSE RecordAll(IF IsBedToolsError(Head(errors))
                   THEN record_error(stats, Head(errors))
                   ELSE stats,
                 Tail(errors))

\* Errors a wrapped call may raise: one of each class of the taxonomy, the
\* base class with its default code and with a code of its own, and an
\* exception outside the taxonomy.
RaisedErrors ==
  {ValidationError("invalid"), SecurityError("denied"), PluginError("plugin failed"),
   OperationError("failed"),
   BedToolsError("BedToolsError", "ERR_UNKNOWN", "ERROR", "SYSTEM", "unexpected"),
   BedToolsError("BedToolsError", "ERR_NETWORK", "CRITICAL", "NETWORK", "unreachable"),
   BuiltinError("RuntimeError", "unexpected")}

\* ===================================================== ProcessInjector.inject
\* tools/process_injector.py: the native calls of one inject, in order, each
\* with the handle it was given or gave back.
ProcessHandle == [kind |-> "process", id |-> 0]
ThreadHandle(i) == [kind |-> "thread", id |-> i]
NoHandle == [kind |-> "none", id |-> 0]
NativeCall(call, handle) == [call |-> call, handle |-> handle]

InjectMethods == {"classic", "apc", "thread_hijack", "module_load"}

\* self.update_progress(n, 5, ...), kept in the same log as the native calls.
Checkpoint(n) == [call |-> "update_progress", handle |-> [kind |-> "checkpoint", id |-> n]]

\* The results of the native calls of one inject and the configuration it
\* reads: OpenThread[i] and QueueUserAPC[i] are the results for thread i of
\* the target, config_ok says that self.config is a mapping; file_exists and
\* pid_exists are the answers of os.path.exists and psutil.pid_exists.
InjectEnvironment(threads, method) ==
  [file_exists : {TRUE}, pid_exists : {TRUE},
   OpenProcess : BOOLEAN, config_ok : BOOLEAN, VirtualAllocEx : BOOLEAN,
   WriteProcessMemory : BOOLEAN,
   CreateRemoteThread : IF method = "classic" THEN BOOLEAN ELSE {TRUE},
   OpenThread : IF method \in {"apc", "thread_hijack"}
                  THEN [1..threads -> BOOLEAN] ELSE {<<>>},
   QueueUserAPC : IF method = "apc" THEN [1..threads -> BOOLEAN] ELSE {<<>>},
   SuspendThread : IF method = "thread_hijack" THEN BOOLEAN ELSE {TRUE},
   GetThreadContext : IF method = "thread_hijack" THEN BOOLEAN ELSE {TRUE},
   hide_thread : IF method \in {"classic", "thread_hijack"} THEN BOOLEAN ELSE {TRUE},
   protect_memory : BOOLEAN]

\* A call whose shellcode file or target process is missing.
RejectedEnvironments ==
  {[file_exists |-> file, pid_exists |-> pid,
    OpenProcess |-> TRUE, config_ok |-> TRUE, VirtualAllocEx |-> TRUE,
    WriteProcessMemory |-> TRUE, CreateRemoteThread |-> TRUE, OpenThread |-> <<>>,
    QueueUserAPC |-> <<>>, SuspendThread |-> TRUE, GetThreadContext |-> TRUE,
    hide_thread |-> TRUE, protect_memory |-> TRUE] :
     file \in BOOLEAN, pid \in {FALSE}}
  \cup
  {[file_exists |-> FALSE, pid_exists |-> TRUE,
    OpenProcess |-> TRUE, config_ok |-> TRUE, VirtualAllocEx |-> TRUE,
    WriteProcessMemory |-> TRUE, CreateRemoteThread |-> TRUE, OpenThread |-> <<>>,
    QueueUserAPC |-> <<>>, SuspendThread |-> TRUE, GetThreadContext |-> TRUE,
    hide_thread |-> TRUE, protect_memory |-> TRUE]}

InjectEnvironments(method) ==
  UNION {InjectEnvironment(threads, method) : threads \in 0..MaxThreads}
    \cup RejectedEnvironments

\* What a helper of inject did: its native calls and its return value.
Injected(calls, success) == [calls |-> calls, success |-> success]

_classic_injection(env) ==
  IF ~env.CreateRemoteThread
    THEN Injected(<<NativeCall("CreateRemoteThread", ProcessHandle)>>, FALSE)
    ELSE Injected(<<NativeCall("CreateRemoteThread", ProcessHandle)>>
                    \o (IF env.hide_thread
                          THEN <<NativeCall("_hide_thread", ProcessHandle)>> ELSE <<>>),
                  TRUE)

\* The first loop of _apc_injection from thread i on: one OpenThread each.
RECURSIVE OpenThreads(_, _)
OpenThreads(env, i) ==
  IF i > Len(env.OpenThread) THEN <<>>
  ELSE <<NativeCall("OpenThread", IF env.OpenThread[i] THEN ThreadHandle(i) ELSE NoHandle)>>
         \o OpenThreads(env, i + 1)

\* The second loop of _apc_injection over the handles opened, from thread i on.
RECURSIVE QueueAPCs(_, _)
QueueAPCs(env, i) ==
  IF i > Len(env.OpenThread) THEN <<>>
  ELSE (IF env.OpenThread[i]
          THEN <<NativeCall("QueueUserAPC", ThreadHandle(i)),
                 NativeCall("CloseHandle", ThreadHandle(i))>>
          ELSE <<>>)
         \o QueueAPCs(env, i + 1)

_apc_injection(env) ==
  LET opened == {i \in 1..Len(env.OpenThread) : env.OpenThread[i]} IN
  IF opened = {}
    THEN Injected(OpenThreads(env, 1), FALSE)
    ELSE Injected(OpenThreads(env, 1) \o QueueAPCs(env, 1),
                  \E i \in opened : env.QueueUserAPC[i])

_thread_hijack_ResumeOnFailure(env) ==
  LET opened == {i \in 1..Len(env.OpenThread) : env.OpenThread[i]} IN
  IF opened = {}
    THEN Injected(OpenThreads(env, 1), FALSE)
    ELSE
      LET first == CHOOSE i \in opened : \A j \in opened : i <= j
          target_thread == ThreadHandle(first)
          tried == SubSeq(OpenThreads(env, 1), 1, first)
          close == <<NativeCall("CloseHandle", target_thread)>> IN
      IF ~env.SuspendThread
        THEN Injected(tried \o <<NativeCall("SuspendThread", target_thread)>> \o close, FALSE)
      ELSE IF ~env.GetThreadContext
        THEN Injected(tried \o <<NativeCall("SuspendThread", target_thread),
                                 NativeCall("GetThreadContext", target_thread),
                                 NativeCall("ResumeThread", target_thread)>> \o close, FALSE)
      ELSE Injected(tried \o <<NativeCall("SuspendThread", target_thread),
                               NativeCall("GetThreadContext", target_thread),
                               NativeCall("ResumeThread", target_thread)>>
                          \o (IF env.hide_thread
                                THEN <<NativeCall("_hide_thread", ProcessHandle)>> ELSE <<>>)
                          \o close, TRUE)

_thread_hijack_LeakOnFailure(env) ==
  LET opened == {i \in 1..Len(env.OpenThread) : env.OpenThread[i]} IN
  IF opened = {}
    THEN Injected(OpenThreads(env, 1), FALSE)
    ELSE
      LET first == CHOOSE i \in opened : \A j \in opened : i <= j
          target_thread == ThreadHandle(first)
          tried == SubSeq(OpenThreads(env, 1), 1, first)
          close == <<NativeCall("CloseHandle", target_thread)>> IN
      IF ~env.SuspendThread
        THEN Injected(tried \o <<NativeCall("SuspendThread", target_thread)>>, FALSE)
      ELSE IF ~env.GetThreadContext
        THEN Injected(tried \o <<NativeCall("SuspendThread", target_thread),
                                 NativeCall("GetThreadContext", target_thread)>>, FALSE)
      ELSE Injected(tried \o <<NativeCall("SuspendThread", target_thread),
                               NativeCall("GetThreadContext", target_thread),
                               NativeCall("ResumeThread", target_thread)>>
                          \o (IF env.hide_thread
                                THEN <<NativeCall("_hide_thread", ProcessHandle)>> ELSE <<>>)
                          \o close, TRUE)

\* _thread_hijack: the first thread that opens is the target; the finally
\* clause closes it on every way out.
_thread_hijack(env) ==
  LET opened == {i \in 1..Len(env.OpenThread) : env.OpenThread[i]} IN
  IF opened = {}
    THEN Injected(OpenThreads(env, 1), FALSE)
    ELSE
      LET first == CHOOSE i \in opened : \A j \in opened : i <= j
          target_thread == ThreadHandle(first)
          tried == SubSeq(OpenThreads(env, 1), 1, first)
          close == <<NativeCall("CloseHandle", target_thread)>> IN
      IF ~env.SuspendThread
        THEN Injected(tried \o <<NativeCall("SuspendThread", target_thread)>> \o close, FALSE)
      ELSE IF ~env.GetThreadContext
        THEN Injected(tried \o <<NativeCall("SuspendThread", target_thread),
                                 NativeCall("GetThreadContext", target_thread)>> \o close, FALSE)
      ELSE Injected(tried \o <<NativeCall("SuspendThread", target_thread),
                               NativeCall("GetThreadContext", target_thread),
                               NativeCall("ResumeThread", target_thread)>>
                          \o (IF env.hide_thread
                                THEN <<NativeCall("_hide_thread", ProcessHandle)>> ELSE <<>>)
                          \o close, TRUE)

_module_injection(env) == Injected(<<>>, FALSE)

Preconditions_FileOnly(env) == env.file_exists

\* The shellcode file exists and the pid is a live process.
Preconditions(env) == env.file_exists /\ env.pid_exists

\* inject: the native calls and progress checkpoints made, and how the body
\* ended.
inject(method, env) ==
  LET open == <<NativeCall("OpenProcess", IF env.OpenProcess THEN ProcessHandle ELSE NoHandle)>>
      close == <<NativeCall("CloseHandle", ProcessHandle)>>
      alloc == <<NativeCall("VirtualAllocEx", ProcessHandle)>>
      write == <<NativeCall("WriteProcessMemory", ProcessHandle)>>
      done == CASE method = "classic"       -> _classic_injection(env)
                [] method = "apc"           -> _apc_injection(env)
                [] method = "thread_hijack" -> _thread_hijack(env)
                [] OTHER                    -> _module_injection(env) IN
  IF ~Preconditions(env)
    THEN [calls |-> <<>>,
          outcome |-> Raised(OperationError(IF ~env.file_exists THEN "no shellcode file"
                                                                ELSE "no such process"))]
  ELSE IF ~env.OpenProcess
    THEN [calls |-> <<Checkpoint(1)>> \o open,
          outcome |-> Raised(OperationError("cannot open process"))]
  ELSE IF ~env.config_ok
    THEN [calls |-> <<Checkpoint(1)>> \o open \o close, outcome |-> Raised(NotSubscriptable)]
  ELSE IF ~env.VirtualAllocEx
    THEN [calls |-> <<Checkpoint(1)>> \o open \o <<Checkpoint(2)>> \o alloc \o close,
          outcome |-> Raised(OperationError("allocation failed"))]
  ELSE IF ~env.WriteProcessMemory
    THEN [calls |-> <<Checkpoint(1)>> \o open \o <<Checkpoint(2)>> \o alloc
                      \o <<Checkpoint(3)>> \o write \o close,
          outcome |-> Raised(OperationError("write failed"))]
  ELSE IF ~done.success
    THEN [calls |-> <<Checkpoint(1)>> \o open \o <<Checkpoint(2)>> \o alloc
                      \o <<Checkpoint(3)>> \o write \o <<Checkpoint(4)>> \o done.calls
                      \o close,
          outcome |-> Raised(OperationError("injection failed"))]
  ELSE [calls |-> <<Checkpoint(1)>> \o open \o <<Checkpoint(2)>> \o alloc
                    \o <<Checkpoint(3)>> \o write \o <<Checkpoint(4)>> \o done.calls
                    \o (IF env.protect_memory
                          THEN <<NativeCall("_protect_memory", ProcessHandle)>> ELSE <<>>)
                    \o <<Checkpoint(5)>> \o close,
        outcome |-> Returned(Bool(TRUE))]

\* ================================================================ PEInjector
\* tools/pe_injector.py: the header fields of a parsed image that the
\* strategies read and write.
IMAGE_SCN_MEM_EXECUTE == 536870912   \* 0x20000000
CodeCharacteristics == 1610612768    \* 0x60000020
\* a section of the same kind that cannot be executed
DataCharacteristics == CodeCharacteristics - IMAGE_SCN_MEM_EXECUTE

\* section.Characteristics & 0x20000000
Executable(section) == (section.Characteristics \div IMAGE_SCN_MEM_EXECUTE) % 2 = 1

\* Bytes a section may hold: zero, int3 and a byte that is neither.
SampleBytes == {0, 204, 144}
RECURSIVE Repeat(_, _)
Repeat(b, n) == IF n = 0 THEN <<>> ELSE <<b>> \o Repeat(b, n - 1)

\* A section as _find_code_cave sees it.
RawSection(va, characteristics, data) ==
  [VirtualAddress |-> va, Characteristics |-> characteristics, data |-> data]
RawData == UNION {[1..n -> SampleBytes] : n \in 0..MaxData}
\* Images searched: every image of one short section, images of two where
\* the second is executable and holds a cave or just misses one, and the
\* image of a section with 40 zero bytes between two others.
SearchedImages ==
  {<<RawSection(4096, c, d)>> : c \in {CodeCharacteristics, DataCharacteristics}, d \in RawData}
  \cup {<<RawSection(4096, c, d1), RawSection(8192, CodeCharacteristics, d2)>> :
          c \in {CodeCharacteristics, DataCharacteristics},
          d1 \in [1..MaxData -> {0, 144}],
          d2 \in {Repeat(204, MaxData), Repeat(0, MaxData - 1) \o <<144>>}}
  \cup {<<RawSection(4096, CodeCharacteristics, <<144>> \o Repeat(0, 40) \o <<144>>)>>}
\* _inject_code_cave asks for the payload and a jump of 5 bytes.
JumpSize == 5
SearchedSizes == JumpSize..(MaxData + 1) \cup {35, 41}

Match(address, length) == [found |-> TRUE, address |-> address, length |-> length]
NoMatch == [found |-> FALSE, address |-> 0, length |-> 0]

IsCaveByte_ZeroOnly(b) == b = 0

\* data[pos] in (0, 0xCC)
IsCaveByte(b) == b \in {0, 204}

\* The inner loop of _find_code_cave: where pos stands when it stops.
\* Positions count from 0 as in the code; data[pos] is data[pos + 1] here.
RECURSIVE CaveEnd(_, _, _, _)
CaveEnd(data, pos, cave_start, size) ==
  IF pos < Len(data) /\ IsCaveByte(data[pos + 1]) /\ pos - cave_start < size
    THEN CaveEnd(data, pos + 1, cave_start, size)
    ELSE pos

\* The outer loop of _find_code_cave over one section, from pos on.
RECURSIVE ScanSection(_, _, _)
ScanSection(section, pos, size) ==
  IF ~(pos < Len(section.data)) THEN NoMatch
  ELSE IF IsCaveByte(section.data[pos + 1])
    THEN LET end == CaveEnd(section.data, pos, pos, size) IN
         IF end - pos >= size
           THEN Match(section.VirtualAddress + pos, end - pos)
           ELSE ScanSection(section, end + 1, size)
    ELSE ScanSection(section, pos + 1, size)

\* PEInjector._find_code_cave over the sections from the i-th on.
RECURSIVE FindFrom(_, _, _)
FindFrom(sections, i, size) ==
  IF i > Len(sections) THEN NoMatch
  ELSE LET found == IF Executable(sections[i]) THEN ScanSection(sections[i], 0, size)
                                               ELSE NoMatch IN
       IF found.found THEN found ELSE FindFrom(sections, i + 1, size)

_find_code_cave(sections, size) == FindFrom(sections, 1, size)

\* ------------------------------------------------------- the new section
\* A section header and the headers of an image.
SectionHeader(va, vsize, raw, rawsize, characteristics) ==
  [VirtualAddress |-> va, Misc_VirtualSize |-> vsize, PointerToRawData |-> raw,
   SizeOfRawData |-> rawsize, Characteristics |-> characteristics]

Alignments == {0, 3, 512, 4096}
LastSections ==
  {SectionHeader(va, vsize, raw, rawsize, CodeCharacteristics) :
     va \in {4096, 4099}, vsize \in {1, 4096}, raw \in {0, 1024}, rawsize \in {3, 512}}
Images ==
  [SectionAlignment : Alignments, FileAlignment : Alignments,
   NumberOfSections : {1}, SizeOfImage : {8192}, AddressOfEntryPoint : {4096},
   sections : {<<last>> : last \in LastSections}]
  \cup [SectionAlignment : {4096}, FileAlignment : {512},
        NumberOfSections : {0}, SizeOfImage : {4096}, AddressOfEntryPoint : {0},
        sections : {<<>>}]
Payloads == 0..MaxPayload \cup {300, 512}
\* self.config when the strategy runs.
StrategyConfigs ==
  {PEInjectorDefault,
   [PEInjectorDefault EXCEPT !.val["injection"].val["preserve_entry"] = Bool(FALSE)],
   ConfigManagerObj}

_align_RoundDown(value, alignment) == (value \div alignment) * alignment

\* PEInjector._align, for an alignment that is not 0
_align(value, alignment) == ((value + alignment - 1) \div alignment) * alignment

\* What a strategy did: the image afterwards and its return value.
Strategy(pe, success) == [pe |-> pe, success |-> success]

\* PEInjector._inject_new_section on a payload of shellcode_size bytes.  An
\* exception anywhere ends it with False and the image as it is by then.
_inject_new_section(pe, shellcode_size, cfg) ==
  IF pe.SectionAlignment = 0 \/ pe.sections = <<>> \/ pe.FileAlignment = 0
    THEN Strategy(pe, FALSE)
  ELSE
    LET last == pe.sections[Len(pe.sections)]
        aligned_size == _align(shellcode_size, pe.SectionAlignment)
        new_section ==
          SectionHeader(_align(last.VirtualAddress + last.Misc_VirtualSize, pe.SectionAlignment),
                        shellcode_size,
                        _align(last.PointerToRawData + last.SizeOfRawData, pe.FileAlignment),
                        _align(shellcode_size, pe.FileAlignment),
                        CodeCharacteristics)
        added == [pe EXCEPT !.NumberOfSections = @ + 1,
                            !.SizeOfImage = new_section.VirtualAddress + aligned_size,
                            !.sections = Append(@, new_section)] IN
    IF ~Subscriptable(cfg)
      THEN Strategy(added, FALSE)
      ELSE Strategy([added EXCEPT !.AddressOfEntryPoint = new_section.VirtualAddress], TRUE)

\* ------------------------------------------------- the bytes of the image
\* pe.__data__ as a sequence of chunks: len bytes taken from offset `from` of
\* the file as it was read ("image"), of the payload ("shellcode"), of the
\* jump ("jmp"), or zero bytes ("zero", whose offset is always 0).  No chunk
\* is empty and no two neighbours continue each other.
Chunk(source, from, len) == [source |-> source, from |-> from, len |-> len]
Bytes(source, len) == IF len > 0 THEN <<Chunk(source, 0, len)>> ELSE <<>>

\* len(data)
RECURSIVE Size(_)
Size(data) == IF data = <<>> THEN 0 ELSE Head(data).len + Size(Tail(data))

\* data[:k] for k >= 0
RECURSIVE Take(_, _)
Take(data, k) ==
  IF data = <<>> \/ k <= 0 THEN <<>>
  ELSE IF Head(data).len <= k THEN <<Head(data)>> \o Take(Tail(data), k - Head(data).len)
  ELSE <<[Head(data) EXCEPT !.len = k]>>

\* data[k:] for k >= 0
RECURSIVE Drop(_, _)
Drop(data, k) ==
  IF data = <<>> \/ k <= 0 THEN data
  ELSE IF Head(data).len <= k THEN Drop(Tail(data), k - Head(data).len)
  ELSE <<[Head(data) EXCEPT !.len = @ - k,
                            !.from = IF @ = 0 /\ Head(data).source = "zero" THEN 0 ELSE @ + k]>>
       \o Tail(data)

\* a + b
Cat(a, b) ==
  IF a = <<>> THEN b
  ELSE IF b = <<>> THEN a
  ELSE LET x == a[Len(a)]
           y == Head(b) IN
       IF x.source = y.source /\ (x.source = "zero" \/ x.from + x.len = y.from)
         THEN SubSeq(a, 1, Len(a) - 1) \o <<[x EXCEPT !.len = @ + y.len]>> \o Tail(b)
         ELSE a \o b

\* The file the image was read from: it ends where the raw data of its last
\* section ends.
ImageData(pe) ==
  IF pe.sections = <<>> THEN Bytes("image", 512)
  ELSE Bytes("image", pe.sections[Len(pe.sections)].PointerToRawData
                        + pe.sections[Len(pe.sections)].SizeOfRawData)

\* PEInjector._create_return_jump: 0xE9 and the relative address in 4 bytes.
_create_return_jump(from_addr, to_addr) == Bytes("jmp", 1 + 4)

\* pe.__data__ in _inject_new_section: after the payload and its padding
\* were put in at the new section's raw pointer (inserted), and when the
\* strategy ends (data).
NewSectionData(pe, shellcode_size, cfg) ==
  IF pe.SectionAlignment = 0 \/ pe.sections = <<>> \/ pe.FileAlignment = 0
    THEN [inserted |-> ImageData(pe), data |-> ImageData(pe)]
  ELSE
    LET last == pe.sections[Len(pe.sections)]
        VirtualAddress == _align(last.VirtualAddress + last.Misc_VirtualSize, pe.SectionAlignment)
        PointerToRawData == _align(last.PointerToRawData + last.SizeOfRawData, pe.FileAlignment)
        SizeOfRawData == _align(shellcode_size, pe.FileAlignment)
        inserted == Cat(Cat(Cat(Take(ImageData(pe), PointerToRawData),
                                Bytes("shellcode", shellcode_size)),
                            Bytes("zero", SizeOfRawData - shellcode_size)),
                        Drop(ImageData(pe), PointerToRawData))
        jmp_code == _create_return_jump(VirtualAddress + shellcode_size, pe.AddressOfEntryPoint) IN
    IF Subscriptable(cfg) /\ cfg.val["injection"].val["preserve_entry"] = Bool(TRUE)
      THEN [inserted |-> inserted,
            data |-> Cat(Cat(Take(inserted, PointerToRawData + shellcode_size), jmp_code),
                         Drop(inserted, PointerToRawData + shellcode_size + Size(jmp_code)))]
      ELSE [inserted |-> inserted, data |-> inserted]

\* ----------------------------------------------- the files of the Obfuscator
\* A file that exists, with its bytes.
File(bytes) == [type |-> "file", val |-> bytes]
InputFiles ==
  {Absent} \cup {File(bytes) : bytes \in UNION {[1..k -> SampleBytes] : k \in 0..MaxPayload}}

\* self.config with the target type given, or the ConfigManager object.
ObfuscateConfigs ==
  {[ObfuscatorDefault EXCEPT !.val["obfuscation"].val["target_type"] = Str(t)] :
     t \in {"pe", "script"}}
  \cup {ConfigManagerObj}

\* Obfuscator._obfuscate_pe and _obfuscate_script give the data back.
_obfuscate_pe(data) == data
_obfuscate_script(data) == data

\* Obfuscator.obfuscate without its wrapper, for a target type that is not
\* "shellcode": the output file afterwards, how the body ended and the last
\* progress checkpoint.  `if not result` is true of b''.
ObfuscateFile(cfg, input_file, output_file) ==
  IF input_file = Absent
    THEN [output |-> output_file, outcome |-> Raised(OperationError("input file missing")),
          checkpoint |-> 0]
  ELSE IF ~Subscriptable(cfg)
    THEN [output |-> output_file, outcome |-> Raised(NotSubscriptable), checkpoint |-> 1]
  ELSE
    LET data == input_file.val
        target_type == cfg.val["obfuscation"].val["target_type"]
        result == CASE target_type = Str("pe") -> _obfuscate_pe(data)
                    [] target_type # Str("shellcode") -> _obfuscate_script(data) IN
    IF result = <<>>
      THEN [output |-> output_file, outcome |-> Raised(OperationError("obfuscation failed")),
            checkpoint |-> 1]
      ELSE [output |-> File(result), outcome |-> Returned(Bool(TRUE)), checkpoint |-> 5]

\* ---------------------------------------------------------------------- state
VARIABLES
  variant,         \* which subclass of ToolBase the tool is
  status,          \* self.status
  progress,        \* self.progress
  resource_usage,  \* self.resource_usage
  error,           \* self._error
  config,          \* self.config
  stack,           \* the public calls whose hook is running, innermost last
  event            \* the last step: operation, phase, what the caller got

\* The ConfigManager singleton and the settings file beside it.
VARIABLES
  cm_config,       \* ConfigManager.config, the in-memory configuration
  settings_file,   \* content of settings.json (absent, corrupt, or a mapping)
  listeners,       \* ConfigManager.listeners, in registration order
  cm_calls         \* what the last ConfigManager operation called, in order

\* The PluginManager singleton and the plugin directory it reads.
VARIABLES
  descriptors,       \* the sidecar descriptor files, by plugin name
  plugins,           \* PluginManager.plugins: name -> the registered instance
  metadata_cache,    \* names that have an entry in PluginManager.metadata_cache
  plugin_mtime,      \* os.path.getmtime of each plugin's source file
  file_watchers,     \* PluginManager.file_watchers: name -> the modification time seen
  disabled_plugins,  \* PluginManager.disabled_plugins
  pm_request,        \* the last PluginManager operation: name, plugin, environment
  pm_calls           \* what that operation called, in order

\* The ErrorHandler singleton.
VARIABLES
  error_stats,       \* ErrorHandler.error_stats: the counters of ErrorStats
  handled            \* every error handle_error was given since the last clear

\* One call of a stateless operation of a tool and what it did.
VARIABLES
  call_args,         \* the operation and the inputs of the call in progress or last made
  call_result        \* what the call did and gave back

toolVars == <<variant, status, progress, resource_usage, error, config, stack>>
configVars == <<cm_config, settings_file, listeners, cm_calls>>
pluginVars == <<descriptors, plugin_mtime, plugins, metadata_cache, file_watchers,
                disabled_plugins,
                pm_request, pm_calls>>
statsVars == <<error_stats, handled>>
callVars == <<call_args, call_result>>
managerVars == <<configVars, pluginVars, statsVars, callVars>>

vars == <<variant, status, progress, resource_usage, error, config, stack, event,
          cm_config, settings_file, listeners, cm_calls,
          descriptors, plugin_mtime, plugins, metadata_cache, file_watchers,
          disabled_plugins,
          pm_request, pm_calls, error_stats, handled, call_args, call_result>>

Frame(op, args) == [op |-> op, args |-> args]
NoArgs == [nargs |-> 0, intLike |-> TRUE]

\* phase "enter": the call reached its hook, which is now running;
\* phase "exit":  the hook ended and the call completed;
\* phase "whole": the call ran from start to finish without reaching a hook.
\* raised is the exception that left the body of the call (NoError: none),
\* outcome what the caller of the public method received.
Event(op, phase, body, outcome) ==
  [op |-> op, phase |-> phase, raised |-> body.exc, outcome |-> outcome]
Enter(op)       == Event(op, "enter", Returned(NoneValue), Returned(NoneValue))
\* a call of a method wrapped by error_handler completes
Wrapped(op, phase, body) == Event(op, phase, body, error_handler(body, op))
\* a call of a method that is not wrapped completes
Plain(op, body) == Event(op, "whole", body, body)

Top == stack[Len(stack)]
Pop == SubSeq(stack, 1, Len(stack) - 1)
InHook(op) == Len(stack) > 0 /\ Top.op = op

\* A public method can be called by the owner of the tool when no call is in
\* flight, and by the running hook of an arbitrary variant.  The concrete
\* tools' hooks never call back.
CanCall == Len(stack) = 0 \/ variant = "Abstract"
CanEnter == CanCall /\ Len(stack) < MaxDepth

Times == 1..MaxTime

\* The managers as a process with no settings file leaves them once they
\* are constructed.
InitConfigManager ==
  /\ cm_config = ConfigManagerDefault
  /\ settings_file = Persisted(ConfigManagerDefault)
  /\ listeners = <<>>
  /\ cm_calls = <<>>

\* PluginManager._initialize: empty tables.
EmptyPluginManager ==
  /\ plugins = [n \in {} |-> "old"]
  /\ metadata_cache = {}
  /\ file_watchers = [n \in {} |-> 0]
  /\ disabled_plugins = {}
  /\ pm_request = Request("", "", NoFault)
  /\ pm_calls = <<>>

\* Plugin files nobody has edited since they were installed.
UntouchedFiles == plugin_mtime = [n \in PluginNames |-> 1]

InitPluginManager ==
  /\ descriptors = [n \in PluginNames |-> PluginMetadata(n, 100, <<>>, TRUE)]
  /\ UntouchedFiles
  /\ EmptyPluginManager

\* ErrorHandler._initialize: fresh statistics.
InitErrorHandler ==
  /\ error_stats = ErrorStats
  /\ handled = <<>>

\* No call made yet.
NoCall == [op |-> "", args |-> <<>>]
InitCalls ==
  /\ call_args = NoCall
  /\ call_result = <<>>

InitManagers ==
  /\ InitConfigManager
  /\ InitPluginManager
  /\ InitErrorHandler
  /\ InitCalls

\* ToolBase.__init__
Init ==
  /\ variant \in Variants
  /\ status = "uninitialized"
  /\ progress = ProgressInfo
  /\ resource_usage = ResourceUsage
  /\ error = NoError
  /\ config = ConfigManagerObj
  /\ stack = <<>>
  /\ event = Plain("__init__", Returned(NoneValue))
  /\ InitManagers

\* ------------------------------------------------------------------ initialize
\* ToolBase.initialize up to the call of _initialize.
Initialize(name, importable) ==
  LET cfg == SampleConfig(variant, name) IN
  /\ CanEnter
  /\ IF Truthy(cfg) /\ ~validate_config(variant, cfg)
       THEN LET body == Raised(OperationError("config validation failed")) IN
            /\ status' = "error"
            /\ error' = ErrorAfterHook(body, error)
            /\ event' = Wrapped("initialize", "whole", body)
            /\ UNCHANGED <<config, stack>>
     ELSE IF ~_check_dependencies(variant, importable)
       THEN LET body == Raised(OperationError("missing dependency")) IN
            /\ status' = "error"
            /\ error' = ErrorAfterHook(body, error)
            /\ config' = IF Truthy(cfg) THEN cfg ELSE config
            /\ event' = Wrapped("initialize", "whole", body)
            /\ UNCHANGED stack
     ELSE IF ~_check_permissions(variant)
       THEN LET body == Raised(OperationError("missing permission")) IN
            /\ status' = "error"
            /\ error' = ErrorAfterHook(body, error)
            /\ config' = IF Truthy(cfg) THEN cfg ELSE config
            /\ event' = Wrapped("initialize", "whole", body)
            /\ UNCHANGED stack
     ELSE /\ status' = "initializing"
          /\ config' = IF Truthy(cfg) THEN cfg ELSE config
          /\ stack' = Append(stack, Frame("initialize", NoArgs))
          /\ event' = Enter("initialize")
          /\ UNCHANGED error
  /\ UNCHANGED <<variant, progress, resource_usage>>

\* How _initialize can end: the concrete tools' always returns True.
InitializeHookOutcomes ==
  IF variant = "Abstract"
    THEN {Returned(Bool(b)) : b \in BOOLEAN} \cup {Raised(e) : e \in HookErrors}
    ELSE {Returned(Bool(TRUE))}

\* ToolBase.initialize from the return of _initialize on.
InitializeEnd(hook) ==
  /\ InHook("initialize")
  /\ stack' = Pop
  /\ status' = IF hook.kind = "return"
                 THEN StatusAfterInitialize(hook.value = Bool(TRUE))
                 ELSE "error"
  /\ error' = ErrorAfterHook(hook, error)
  /\ config' = IF hook.kind = "return" /\ variant # "Abstract"
                 THEN _initialize_config(variant, config)
                 ELSE config
  /\ event' = Wrapped("initialize", "exit", hook)
  /\ UNCHANGED <<variant, progress, resource_usage>>

\* --------------------------------------------------------------------- execute
\* ToolBase.execute up to the call of _execute.
Execute(args) ==
  /\ CanCall
  /\ IF ~ExecuteAllowed(status)
       THEN /\ event' = Wrapped("execute", "whole", Raised(OperationError("wrong status")))
            /\ UNCHANGED <<status, progress, stack>>
       ELSE /\ Len(stack) < MaxDepth
            /\ status' = "running"
            /\ \E now \in Times : progress' = ProgressStart(progress, now)
            /\ stack' = Append(stack, Frame("execute",
                                  IF variant = "Abstract" THEN NoArgs ELSE args))
            /\ event' = Enter("execute")
  /\ UNCHANGED <<variant, resource_usage, error, config>>

\* How _execute can end, with the last progress checkpoint it reported.
ExecuteHookRuns ==
  IF variant = "Abstract"
    THEN {Run(Returned(v), 0) : v \in HookValues} \cup {Run(Raised(e), 0) : e \in HookErrors}
    ELSE {_execute(variant, args, config, fail) :
            args \in {f.args : f \in {stack[i] : i \in {Len(stack)} \ {0}}},
            fail \in FailPoints(variant)}

\* ToolBase.execute from the return of _execute on.
ExecuteEnd(run, now) ==
  /\ InHook("execute")
  /\ stack' = Pop
  /\ progress' = IF run.checkpoint > 0
                   THEN ProgressUpdate(progress, run.checkpoint, 5, "checkpoint", <<>>, now)
                   ELSE progress
  /\ status' = StatusAfterExecute(run.outcome)
  /\ error' = ErrorAfterHook(run.outcome, error)
  /\ event' = Wrapped("execute", "exit", run.outcome)
  /\ UNCHANGED <<variant, resource_usage, config>>

\* --------------------------------------------------------------------- cleanup
\* ToolBase.cleanup up to the call of _cleanup.
Cleanup ==
  /\ CanEnter
  /\ status' = "cleaning"
  /\ stack' = Append(stack, Frame("cleanup", NoArgs))
  /\ event' = Enter("cleanup")
  /\ UNCHANGED <<variant, progress, resource_usage, error, config>>

\* How _cleanup can end: the concrete tools' is empty.
CleanupHookOutcomes ==
  IF variant = "Abstract"
    THEN {Returned(NoneValue)} \cup {Raised(e) : e \in HookErrors}
    ELSE {Returned(NoneValue)}

\* ToolBase.cleanup from the return of _cleanup on.
CleanupEnd(hook) ==
  /\ InHook("cleanup")
  /\ stack' = Pop
  /\ status' = StatusAfterCleanup(hook)
  /\ error' = ErrorAfterHook(hook, error)
  /\ event' = Wrapped("cleanup", "exit", hook)
  /\ UNCHANGED <<variant, progress, resource_usage, config>>

\* ------------------------------------------------------- pause, resume, reset
PauseStatus_AlsoReady(st) == IF st \in {"running", "ready"} THEN "paused" ELSE st

PauseStatus(st) == IF st = "running" THEN "paused" ELSE st

Pause ==
  /\ CanCall
  /\ status' = PauseStatus(status)
  /\ event' = Plain("pause", Returned(NoneValue))
  /\ UNCHANGED <<variant, progress, resource_usage, error, config, stack>>

ResumeStatus(st) == IF st = "paused" THEN "running" ELSE st

Resume ==
  /\ CanCall
  /\ status' = ResumeStatus(status)
  /\ event' = Plain("resume", Returned(NoneValue))
  /\ UNCHANGED <<variant, progress, resource_usage, error, config, stack>>

ResetError_Keep(e) == e

\* What reset() puts in place of the trackers and the last error.
ResetProgress(p) == ProgressInfo
ResetResourceUsage(r) == ResourceUsage
ResetError(e) == NoError

Reset ==
  /\ CanCall
  /\ status' = "uninitialized"
  /\ progress' = ResetProgress(progress)
  /\ resource_usage' = ResetResourceUsage(resource_usage)
  /\ error' = ResetError(error)
  /\ event' = Plain("reset", Returned(NoneValue))
  /\ UNCHANGED <<variant, config, stack>>

\* ------------------------------------------------------------------- trackers
UpdateProgress(current, total, message, details, now) ==
  /\ CanCall
  /\ progress' = ProgressUpdate(progress, current, total, message, details, now)
  /\ event' = Plain("update_progress", Returned(NoneValue))
  /\ UNCHANGED <<variant, status, resource_usage, error, config, stack>>

UpdateResourceUsage(memory, cpu, disk, network, now) ==
  /\ CanCall
  /\ resource_usage' = ResourceUpdate(resource_usage, memory, cpu, disk, network, now)
  /\ event' = Plain("update_resource_usage", Returned(NoneValue))
  /\ UNCHANGED <<variant, status, progress, error, config, stack>>

\* ------------------------------------------------------------ validate_config
\* The public ToolBase.validate_config: a failed check is kept as last error
\* and reported as False.
ValidateConfig(name) ==
  LET ok == validate_config(variant, SampleConfig(variant, name)) IN
  /\ CanCall
  /\ name # "none"
  /\ error' = IF ok THEN error ELSE OperationError("invalid config")
  /\ event' = Wrapped("validate_config", "whole", Returned(Bool(ok)))
  /\ UNCHANGED <<variant, status, progress, resource_usage, config, stack>>

\* ------------------------------------- other operations behind the wrapper
\* A concrete tool's operation called directly (obfuscate, inject).
DirectOperation(fail, now) ==
  LET run == ToolOperation(variant, config, fail)
      bare == CASE variant = "Obfuscator" -> obfuscate(config, fail)
                [] variant = "PEInjector" -> pe_inject(config, fail)
                [] OTHER                  -> process_inject(config, fail)
      fname == IF variant = "Obfuscator" THEN "obfuscate" ELSE "inject" IN
  /\ variant # "Abstract"
  /\ Len(stack) = 0
  /\ progress' = IF run.checkpoint > 0
                   THEN ProgressUpdate(progress, run.checkpoint, 5, "checkpoint", <<>>, now)
                   ELSE progress
  /\ event' = Event(fname, "whole", bare.outcome, run.outcome)
  /\ UNCHANGED <<variant, status, resource_usage, error, config, stack>>

\* ProcessInjector.list_processes without its wrapper: the process table is
\* read through self.config, which must be a mapping.
list_processes(cfg, enumerable) ==
  IF ~enumerable THEN Raised(BuiltinError("Error", "process enumeration failed"))
  ELSE IF ~Subscriptable(cfg) THEN Raised(NotSubscriptable)
  ELSE Returned(ListValue)

ListProcesses(enumerable) ==
  /\ variant = "ProcessInjector"
  /\ Len(stack) = 0
  /\ event' = Wrapped("list_processes", "whole", list_processes(config, enumerable))
  /\ UNCHANGED <<variant, status, progress, resource_usage, error, config, stack>>

\* The wrapped operations of the two managers and the ways their bodies end.
ManagerOps == {"load_config", "save_config", "set", "load_plugin", "unload_plugin",
               "reload_plugin", "load_all_plugins", "execute_plugin_method"}

ManagerBodyOutcomes(op) ==
  CASE op = "load_config" ->
         {Returned(NoneValue), Raised(ValidationError("config validation failed")),
          Raised(BuiltinError("JSONDecodeError", "settings file is not JSON"))}
    [] op = "save_config" ->
         {Returned(NoneValue), Raised(BuiltinError("OSError", "cannot write settings"))}
    [] op = "set" -> {Returned(NoneValue)}
    [] op \in {"load_plugin", "unload_plugin"} ->
         {Returned(Bool(TRUE)), Returned(Bool(FALSE)), Raised(PluginError("plugin failure"))}
    [] op = "reload_plugin" ->
         {Returned(Bool(TRUE)), Returned(Bool(FALSE)),
          Returned(HandleError(PluginError("plugin failure"), "load_plugin"))}
    [] op = "load_all_plugins" -> {Returned(EmptyDict)}
    [] OTHER ->
         {Returned(NoneValue), Raised(PluginError("plugin failure")),
          Raised(BuiltinError("RuntimeError", "plugin method failed"))}

ManagerCall(op, body) ==
  /\ Len(stack) = 0
  /\ event' = Wrapped(op, "whole", body)
  /\ UNCHANGED <<variant, status, progress, resource_usage, error, config, stack>>

\* ------------------------------------------------- ConfigManager operations
\* ConfigManager.load_config
LoadConfig(writable) ==
  LET r == load_config(settings_file, writable) IN
  /\ cm_config' = r.config
  /\ settings_file' = r.file
  /\ cm_calls' = IF r.outcome.kind = "return" THEN <<CalledSave(writable)>> ELSE <<>>
  /\ event' = Wrapped("load_config", "whole", r.outcome)
  /\ UNCHANGED listeners

\* ConfigManager.save_config
SaveConfig(writable) ==
  LET r == save_config(cm_config, settings_file, writable) IN
  /\ settings_file' = r.file
  /\ cm_calls' = <<CalledSave(writable)>>
  /\ event' = Wrapped("save_config", "whole", r.outcome)
  /\ UNCHANGED <<cm_config, listeners>>

\* ConfigManager.set
Set(kv, writable) ==
  LET old_value == get(cm_config, kv.key) IN
  /\ IF SetIsNoOp(old_value, kv.value)
       THEN /\ cm_calls' = <<>>
            /\ UNCHANGED <<cm_config, settings_file, listeners>>
       ELSE LET updated == Dict(DictUpdate(cm_config.val, kv.key :> kv.value))
                ev == ConfigChangeEvent(kv.key, old_value, kv.value) IN
            /\ cm_config' = updated
            /\ cm_calls' = _notify_listeners(listeners, ev) \o <<CalledSave(writable)>>
            /\ listeners' = NotifyFrom(listeners, 1, ev).listeners
            /\ settings_file' = save_config(updated, settings_file, writable).file
  /\ event' = Wrapped("set", "whole", Returned(NoneValue))

\* ConfigManager.add_listener
AddListener(l) ==
  /\ listeners' = add_listener(listeners, l)
  /\ cm_calls' = <<>>
  /\ event' = Plain("add_listener", Returned(NoneValue))
  /\ UNCHANGED <<cm_config, settings_file>>

\* ConfigManager.remove_listener
RemoveListener(l) ==
  /\ listeners' = remove_listener(listeners, l)
  /\ cm_calls' = <<>>
  /\ event' = Plain("remove_listener", Returned(NoneValue))
  /\ UNCHANGED <<cm_config, settings_file>>

\* ------------------------------------------------- PluginManager operations
\* Keys the table of a small dict takes before it is rebuilt: two thirds of
\* its 8 slots.
TableRoom == (2 * 8) \div 3

\* The operators below work on the manager's tables as one record
\* [plugins, metadata_cache, file_watchers, disabled_plugins, calls] and give
\* the tables afterwards and how the body ended.
Manager ==
  [plugins |-> plugins, metadata_cache |-> metadata_cache,
   file_watchers |-> file_watchers, disabled_plugins |-> disabled_plugins,
   calls |-> <<>>, handled |-> <<>>, depth |-> 0, entries |-> <<>>, room |-> TableRoom]

\* A registered instance is "new" when the operation under way created it.
Settled(m) == [m EXCEPT !.plugins = [n \in DOMAIN m.plugins |-> "old"]]

Called(m, call, name) ==
  [m EXCEPT !.calls = Append(m.calls,
      [call |-> call, plugin |-> name, registry |-> DOMAIN m.plugins])]

Result(m, outcome) == [m |-> m, outcome |-> outcome]

\* What the caller of a wrapped operation gets.
Handled(r, fname) ==
  Result(IF r.outcome.kind = "raise"
           THEN [r.m EXCEPT !.handled = Append(@, r.outcome.exc)]
           ELSE r.m,
         error_handler(r.outcome, fname))

LoadFailed(name, e) == PluginError("load of " \o name \o " failed: " \o e.msg)
UnloadFailed(name, e) == PluginError("unload of " \o name \o " failed: " \o e.msg)
HasDependents(name, dependents) ==
  PluginError("cannot unload " \o name \o ", needed by: " \o JoinNames(dependents, PluginSeq))

\* PluginManager._load_plugin_metadata: TRUE when the descriptor can be read.
_load_plugin_metadata(name, env) ==
  name \in DOMAIN descriptors /\ ~Faulty(env, name, "descriptor")

\* PluginManager._check_version_compatibility is a stub.
_check_version_compatibility(required_version) == TRUE

\* PluginManager._update_file_watcher
_update_file_watcher(watchers, name) ==
  [n \in DOMAIN watchers \cup {name} |->
     IF n = name THEN plugin_mtime[name] ELSE watchers[n]]

\* The entry table of the dict self.plugins, which matters to a loop over
\* the dict: entries holds the keys in the order they were added, with "" where
\* a key was deleted, and room is the number of keys that can still be added
\* before the table is rebuilt without the deleted entries.
\* What `self.plugins[name] = plugin` does to the table.
SetItem(m, name) ==
  IF name \in DOMAIN m.plugins THEN m
  ELSE IF m.room = 0
    THEN LET kept == SelectSeq(m.entries, LAMBDA k : k # "") IN
         [m EXCEPT !.entries = Append(kept, name), !.room = TableRoom - Len(kept) - 1]
    ELSE [m EXCEPT !.entries = Append(@, name), !.room = @ - 1]

\* What `del self.plugins[name]` does to the table.
DelItem(m, name) ==
  [m EXCEPT !.entries = [i \in DOMAIN @ |-> IF @[i] = name THEN "" ELSE @[i]]]

Register_ByModuleName(m0, name) ==
  LET m == SetItem(m0, name) IN
  [m EXCEPT !.plugins = [n \in DOMAIN m.plugins \cup {name} |->
                           IF n = name THEN "new" ELSE m.plugins[n]],
            !.metadata_cache = @ \cup {name},
            !.file_watchers = _update_file_watcher(@, name)]

\* The registration at the end of a successful load: the instance and its
\* metadata under plugin.name, the name its descriptor declares, the time of
\* the file under the name of the module.
Register(m0, name) ==
  LET key == descriptors[name].name
      m == SetItem(m0, key) IN
  [m EXCEPT !.plugins = [n \in DOMAIN m.plugins \cup {key} |->
                           IF n = key THEN "new" ELSE m.plugins[n]],
            !.metadata_cache = @ \cup {key},
            !.file_watchers = _update_file_watcher(@, name)]

RECURSIVE load_plugin(_, _, _)
RECURSIVE _load_dependencies(_, _, _)

\* PluginManager._load_dependencies: each dependency that is not registered
\* is loaded through the wrapped load_plugin, whose result is tested for
\* falsity.
_load_dependencies(m, deps, env) ==
  IF deps = <<>> THEN Result(m, Returned(NoneValue))
  ELSE IF Head(deps) \in DOMAIN m.plugins THEN _load_dependencies(m, Tail(deps), env)
  ELSE LET inner == Handled(load_plugin([m EXCEPT !.depth = @ + 1], Head(deps), env),
                            "load_plugin")
           r == Result([inner.m EXCEPT !.depth = m.depth], inner.outcome) IN
       IF ~Truthy(r.outcome.value)
         THEN Result(r.m, Raised(PluginError("cannot load dependency " \o Head(deps))))
         ELSE _load_dependencies(r.m, Tail(deps), env)

\* PluginManager.load_plugin without its wrapper.  A call nested deeper than
\* the interpreter's stack allows ends in RecursionError, an Exception like
\* any other to the except clause.
load_plugin(m, name, env) ==
  LET m0 == Called(m, "load_plugin", name) IN
  IF name \in m0.disabled_plugins THEN Result(m0, Returned(Bool(FALSE)))
  ELSE IF m0.depth >= MaxStack
    THEN Result(m0, Raised(LoadFailed(name,
                  BuiltinError("RecursionError", "maximum recursion depth exceeded"))))
  ELSE IF ~_load_plugin_metadata(name, env)
    THEN Result(m0, Raised(LoadFailed(name, PluginError("cannot read descriptor"))))
  ELSE IF ~descriptors[name].enabled
    THEN Result([m0 EXCEPT !.disabled_plugins = @ \cup {name}], Returned(Bool(FALSE)))
  ELSE IF ~_check_version_compatibility("1.0.0")
    THEN Result(m0, Raised(LoadFailed(name, PluginError("incompatible version"))))
  ELSE LET d == _load_dependencies(m0, descriptors[name].dependencies, env) IN
       IF d.outcome.kind = "raise" THEN Result(d.m, Raised(LoadFailed(name, d.outcome.exc)))
       ELSE IF Faulty(env, name, "module")
         THEN Result(d.m, Raised(LoadFailed(name, BuiltinError("ImportError", "no module"))))
       ELSE IF Faulty(env, name, "class")
         THEN Result(d.m, Raised(LoadFailed(name, PluginError("no plugin class"))))
       ELSE LET m1 == Called(d.m, "initialize", name) IN
            IF Faulty(env, name, "init_raises")
              THEN Result(m1, Raised(LoadFailed(name, BuiltinError("RuntimeError", "initialize failed"))))
            ELSE IF Faulty(env, name, "init_false")
              THEN Result(m1, Returned(Bool(FALSE)))
            ELSE Result(Register(m1, name), Returned(Bool(TRUE)))

_find_dependent_plugins_None(m, name) == {}

\* self.metadata_cache[key]: the descriptor that declares the name.
CachedMetadata(key) ==
  descriptors[CHOOSE n \in PluginNames : descriptors[n].name = key]

\* PluginManager._find_dependent_plugins: the cached plugins whose
\* dependencies name the plugin.
_find_dependent_plugins(m, name) ==
  {n \in m.metadata_cache : name \in Range(CachedMetadata(n).dependencies)}

unload_plugin_RemoveFirst(m, name, env) ==
  LET m0 == Called(m, "unload_plugin", name) IN
  IF name \notin DOMAIN m0.plugins THEN Result(m0, Returned(Bool(FALSE)))
  ELSE LET dependents == _find_dependent_plugins(m0, name) IN
       IF dependents # {}
         THEN Result(m0, Raised(UnloadFailed(name, HasDependents(name, dependents))))
       ELSE LET m1 == Called(m0, "cleanup", name)
                removed == [DelItem(m1, name) EXCEPT
                              !.plugins = [n \in DOMAIN m1.plugins \ {name} |-> m1.plugins[n]],
                              !.metadata_cache = @ \ {name},
                              !.file_watchers = [n \in DOMAIN @ \ {name} |-> @[n]]] IN
            IF Faulty(env, name, "cleanup_raises")
              THEN Result(removed, Raised(UnloadFailed(name, BuiltinError("RuntimeError", "cleanup failed"))))
              ELSE Result(removed, Returned(Bool(TRUE)))

\* PluginManager.unload_plugin without its wrapper.
unload_plugin(m, name, env) ==
  LET m0 == Called(m, "unload_plugin", name) IN
  IF name \notin DOMAIN m0.plugins THEN Result(m0, Returned(Bool(FALSE)))
  ELSE LET dependents == _find_dependent_plugins(m0, name) IN
       IF dependents # {}
         THEN Result(m0, Raised(UnloadFailed(name, HasDependents(name, dependents))))
       ELSE LET m1 == Called(m0, "cleanup", name) IN
            IF Faulty(env, name, "cleanup_raises")
              THEN Result(m1, Raised(UnloadFailed(name, BuiltinError("RuntimeError", "cleanup failed"))))
              ELSE Result([DelItem(m1, name) EXCEPT
                             !.plugins = [n \in DOMAIN m1.plugins \ {name} |-> m1.plugins[n]],
                             !.metadata_cache = @ \ {name},
                             !.file_watchers = [n \in DOMAIN @ \ {name} |-> @[n]]],
                          Returned(Bool(TRUE)))

\* PluginManager.reload_plugin without its wrapper: both steps are wrapped
\* calls, and the result of the unload is tested for truth.
reload_plugin(m, name, env) ==
  IF name \in DOMAIN m.plugins
    THEN LET u == Handled(unload_plugin(m, name, env), "unload_plugin") IN
         IF Truthy(u.outcome.value)
           THEN Handled(load_plugin(u.m, name, env), "load_plugin")
           ELSE Result(u.m, Returned(Bool(FALSE)))
    ELSE Result(m, Returned(Bool(FALSE)))

SortByLoadOrder_Descending(names) ==
  LET RECURSIVE Sorted(_)
      Sorted(S) ==
        IF S = {} THEN <<>>
        ELSE LET x == CHOOSE n \in S :
                        \A o \in S : descriptors[n].load_order >= descriptors[o].load_order
             IN <<x>> \o Sorted(S \ {x})
  IN Sorted(names)

\* plugin_order.sort(key=load_order): the names in ascending load_order.
SortByLoadOrder(names) ==
  LET RECURSIVE Sorted(_)
      Sorted(S) ==
        IF S = {} THEN <<>>
        ELSE LET x == CHOOSE n \in S :
                        \A o \in S : descriptors[n].load_order <= descriptors[o].load_order
             IN <<x>> \o Sorted(S \ {x})
  IN Sorted(names)

\* The candidates of load_all_plugins: discovered and with a readable descriptor.
Ordered(env) == {n \in DOMAIN descriptors : _load_plugin_metadata(n, env)}

\* The loop of load_all_plugins over the ordered names.
RECURSIVE LoadEach(_, _, _, _)
LoadEach(m, order, env, results) ==
  IF order = <<>> THEN Result(m, Returned(Dict(results)))
  ELSE LET r == Handled(load_plugin(m, Head(order), env), "load_plugin") IN
       LoadEach(r.m, Tail(order), env,
                [n \in DOMAIN results \cup {Head(order)} |->
                   IF n = Head(order) THEN r.outcome.value ELSE results[n]])

\* PluginManager.load_all_plugins without its wrapper.
load_all_plugins(m, env) ==
  LoadEach(m, SortByLoadOrder(Ordered(env)), env, [n \in {} |-> NoneValue])

\* PluginManager._check_plugin_update
_check_plugin_update(m, name, env) ==
  IF name \notin DOMAIN m.file_watchers THEN Returned(Bool(FALSE))
  ELSE IF Faulty(env, name, "mtime")
    THEN Raised(BuiltinError("FileNotFoundError", "no such file"))
  ELSE Returned(Bool(plugin_mtime[name] > m.file_watchers[name]))

\* The position of the first key at or after entry i, past the end if none.
RECURSIVE NextEntry(_, _)
NextEntry(entries, i) ==
  IF i > Len(entries) \/ entries[i] # "" THEN i ELSE NextEntry(entries, i + 1)

\* The loop of check_updates: `for plugin_name in self.plugins` with the
\* iterator after entry pos, remaining keys still expected of used in all.
\* The iterator raises RuntimeError when the dict has another size than when
\* the loop began, and when it finds more keys than the dict had then.
RECURSIVE CheckEach(_, _, _, _, _, _)
CheckEach(m, pos, remaining, used, results, env) ==
  IF Cardinality(DOMAIN m.plugins) # used
    THEN Result(m, Raised(BuiltinError("RuntimeError",
                                       "dictionary changed size during iteration")))
  ELSE LET i == NextEntry(m.entries, pos + 1) IN
  IF i > Len(m.entries) THEN Result(m, Returned(Dict(results)))
  ELSE IF remaining = 0
    THEN Result(m, Raised(BuiltinError("RuntimeError",
                                       "dictionary keys changed during iteration")))
  ELSE LET name == m.entries[i]
           updated == _check_plugin_update(m, name, env)
           m1 == Called(m, "_check_plugin_update", name) IN
       IF updated.kind = "raise" \/ ~Truthy(updated.value)
         THEN CheckEach(m1, i, remaining - 1, used,
                        DictUpdate(results, name :> Bool(FALSE)), env)
         ELSE CheckEach(Handled(reload_plugin(m1, name, env), "reload_plugin").m,
                        i, remaining - 1, used,
                        DictUpdate(results, name :> Bool(TRUE)), env)

\* PluginManager.check_updates, which has no wrapper.
check_updates(m, env) ==
  CheckEach(m, 0, Cardinality(DOMAIN m.plugins), Cardinality(DOMAIN m.plugins), <<>>, env)

\* One wrapped operation of the manager as a step.
PluginStep(fname, name, env, r) ==
  /\ pm_request' = Request(fname, name, env)
  /\ plugins' = r.m.plugins
  /\ metadata_cache' = r.m.metadata_cache
  /\ file_watchers' = r.m.file_watchers
  /\ disabled_plugins' = r.m.disabled_plugins
  /\ pm_calls' = r.m.calls
  /\ event' = Wrapped(fname, "whole", r.outcome)
  /\ UNCHANGED <<descriptors, plugin_mtime>>

LoadPlugin(name, env) ==
  PluginStep("load_plugin", name, env, load_plugin(Settled(Manager), name, env))
UnloadPlugin(name, env) ==
  PluginStep("unload_plugin", name, env, unload_plugin(Settled(Manager), name, env))
ReloadPlugin(name, env) ==
  PluginStep("reload_plugin", name, env, reload_plugin(Settled(Manager), name, env))
LoadAllPlugins(env) ==
  PluginStep("load_all_plugins", "", env, load_all_plugins(Settled(Manager), env))

\* The orders in which the names of a set can have been added to a dict.
Orders(names) ==
  {o \in [1..Cardinality(names) -> names] : \A i, j \in DOMAIN o : o[i] = o[j] => i = j}

\* One call of check_updates, with the registry filled in some order after
\* a number of keys were added and deleted again.
CheckUpdates(order, deleted, env) ==
  LET r == check_updates([Settled(Manager) EXCEPT
                            !.entries = Repeat("", deleted) \o order,
                            !.room = TableRoom - deleted - Len(order)], env) IN
  /\ pm_request' = Request("check_updates", "", env)
  /\ plugins' = r.m.plugins
  /\ metadata_cache' = r.m.metadata_cache
  /\ file_watchers' = r.m.file_watchers
  /\ disabled_plugins' = r.m.disabled_plugins
  /\ pm_calls' = r.m.calls
  /\ event' = Plain("check_updates", r.outcome)
  /\ UNCHANGED <<descriptors, plugin_mtime>>

\* Somebody saves a new version of a plugin's source file.
Edit(name) ==
  /\ plugin_mtime[name] <= MaxEdits
  /\ plugin_mtime' = [plugin_mtime EXCEPT ![name] = @ + 1]
  /\ pm_request' = Request("", "", NoFault)
  /\ pm_calls' = <<>>
  /\ event' = Plain("edit", Returned(NoneValue))
  /\ UNCHANGED <<descriptors, plugins, metadata_cache, file_watchers, disabled_plugins>>

\* -------------------------------------------------- ErrorHandler operations
\* A wrapped call raised e and the decorator gave it to handle_error: the
\* error is recorded if it belongs to the taxonomy, then the recovery handler
\* registered for its code runs.  The one for ERR_PLUGIN reloads the plugin
\* named in the error's details (plugin_name, "" when the details have none);
\* the wrapped unload and load inside the reload hand their own failures to
\* handle_error.
HandleRaised(e, plugin_name, env) ==
  LET recovers == e.error_code = "ERR_PLUGIN" /\ plugin_name # ""
      r == IF recovers THEN reload_plugin(Settled(Manager), plugin_name, env)
                       ELSE Result(Manager, Returned(Bool(FALSE)))
      all == Stamped(<<e>> \o r.m.handled, Len(handled)) IN
  /\ Len(handled) + Len(all) <= MaxErrors
  /\ error_stats' = RecordAll(error_stats, all)
  /\ handled' = handled \o all
  /\ IF recovers
       THEN /\ pm_request' = Request("reload_plugin", plugin_name, env)
            /\ plugins' = r.m.plugins
            /\ metadata_cache' = r.m.metadata_cache
            /\ file_watchers' = r.m.file_watchers
            /\ disabled_plugins' = r.m.disabled_plugins
            /\ pm_calls' = r.m.calls
            /\ UNCHANGED <<descriptors, plugin_mtime>>
       ELSE UNCHANGED pluginVars
  /\ event' = Wrapped("execute_plugin_method", "whole", Raised(e))

\* ErrorHandler.clear_error_stats
ClearErrorStats ==
  /\ error_stats' = clear_stats(error_stats)
  /\ handled' = <<>>
  /\ event' = Plain("clear_error_stats", Returned(NoneValue))
  /\ UNCHANGED pluginVars

\* ------------------------------------------------------ ErrorStats operations
\* ErrorStats.record_error on a freshly built error of the taxonomy.
RecordError(e) ==
  /\ Len(handled) < HistoryLimit + MaxOverflow
  /\ LET built == Stamp(e, Len(handled) + 1) IN
       /\ error_stats' = record_error(error_stats, built)
       /\ handled' = Append(handled, built)
  /\ event' = Plain("record_error", Returned(NoneValue))
  /\ UNCHANGED pluginVars

\* ErrorStats.clear_stats
ClearStats ==
  /\ error_stats' = clear_stats(error_stats)
  /\ handled' = <<>>
  /\ event' = Plain("clear_stats", Returned(NoneValue))
  /\ UNCHANGED pluginVars

\* ------------------------------------------------- ProcessInjector operations
\* One whole call of ProcessInjector.inject through its wrapper.
Inject(method, env) ==
  /\ call_args = NoCall
  /\ LET r == inject(method, env) IN
       /\ call_args' = [op |-> "inject", args |-> <<method, env>>]
       /\ call_result' = r.calls
       /\ event' = Wrapped("inject", "whole", r.outcome)

\* The caller has the result; the next call can be made.
CallReturn ==
  /\ call_args # NoCall
  /\ call_args' = NoCall
  /\ call_result' = <<>>
  /\ UNCHANGED event

\* ------------------------------------------------------ Obfuscator operations
\* One call of Obfuscator.obfuscate on the files given.
Obfuscate(cfg, input_file) ==
  /\ call_args = NoCall
  /\ call_args' = [op |-> "obfuscate", args |-> <<cfg, input_file>>]
  /\ call_result' = ObfuscateFile(cfg, input_file, Absent)
  /\ event' = Wrapped("obfuscate", "whole", ObfuscateFile(cfg, input_file, Absent).outcome)

\* ------------------------------------------------------ PEInjector operations
\* One call of PEInjector._find_code_cave.
FindCodeCave(sections, size) ==
  /\ call_args = NoCall
  /\ call_args' = [op |-> "_find_code_cave", args |-> <<sections, size>>]
  /\ call_result' = _find_code_cave(sections, size)
  /\ event' = Plain("_find_code_cave", Returned(NoneValue))

\* One call of PEInjector._inject_new_section.
InjectNewSection(pe, shellcode_size, cfg) ==
  /\ call_args = NoCall
  /\ call_args' = [op |-> "_inject_new_section", args |-> <<pe, shellcode_size, cfg>>]
  /\ call_result' = [pe |-> _inject_new_section(pe, shellcode_size, cfg).pe,
                      success |-> _inject_new_section(pe, shellcode_size, cfg).success,
                      inserted |-> NewSectionData(pe, shellcode_size, cfg).inserted,
                      data |-> NewSectionData(pe, shellcode_size, cfg).data]
  /\ event' = Plain("_inject_new_section", Returned(NoneValue))

\* ------------------------------------------------------------------------ next
Next ==
  \/ \E name \in ConfigNames, importable \in SUBSET dependencies(variant) :
       Initialize(name, importable) /\ UNCHANGED managerVars
  \/ \E hook \in InitializeHookOutcomes : InitializeEnd(hook) /\ UNCHANGED managerVars
  \/ \E args \in ExecArgs : Execute(args) /\ UNCHANGED managerVars
  \/ \E run \in ExecuteHookRuns, now \in Times : ExecuteEnd(run, now) /\ UNCHANGED managerVars
  \/ Cleanup /\ UNCHANGED managerVars
  \/ \E hook \in CleanupHookOutcomes : CleanupEnd(hook) /\ UNCHANGED managerVars
  \/ Pause /\ UNCHANGED managerVars
  \/ Resume /\ UNCHANGED managerVars
  \/ Reset /\ UNCHANGED managerVars
  \/ \E current \in 1..MaxCount, now \in Times :
       UpdateProgress(current, MaxCount + 1, "working", [step |-> "a"], now) /\ UNCHANGED managerVars
  \/ \E now \in Times : UpdateResourceUsage(MaxCount, 0, 0, MaxCount, now) /\ UNCHANGED managerVars
  \/ \E name \in ConfigNames : ValidateConfig(name) /\ UNCHANGED managerVars

Spec == Init /\ [][Next]_vars

\* The operations that sit behind the error_handler wrapper, on their own.
NextWrapper ==
  \/ \E name \in ConfigNames, importable \in SUBSET dependencies(variant) :
       Initialize(name, importable) /\ UNCHANGED managerVars
  \/ \E hook \in InitializeHookOutcomes : InitializeEnd(hook) /\ UNCHANGED managerVars
  \/ \E args \in ExecArgs : Execute(args) /\ UNCHANGED managerVars
  \/ \E run \in ExecuteHookRuns, now \in Times : ExecuteEnd(run, now) /\ UNCHANGED managerVars
  \/ Cleanup /\ UNCHANGED managerVars
  \/ \E hook \in CleanupHookOutcomes : CleanupEnd(hook) /\ UNCHANGED managerVars
  \/ \E name \in ConfigNames : ValidateConfig(name) /\ UNCHANGED managerVars
  \/ \E fail \in FailPoints(variant), now \in Times : DirectOperation(fail, now) /\ UNCHANGED managerVars
  \/ \E enumerable \in BOOLEAN : ListProcesses(enumerable) /\ UNCHANGED managerVars
  \/ \E op \in ManagerOps : \E body \in ManagerBodyOutcomes(op) : ManagerCall(op, body) /\ UNCHANGED managerVars

SpecWrapper == Init /\ [][NextWrapper]_vars

\* ---------------------------------------------------- the ConfigManager alone
\* The process starts on any settings file; the manager's constructor has
\* run load_config once.
\* A tool nobody touches, beside the manager under study.
IdleTool ==
  /\ variant = "Abstract"
  /\ status = "uninitialized"
  /\ progress = ProgressInfo
  /\ resource_usage = ResourceUsage
  /\ error = NoError
  /\ config = ConfigManagerObj
  /\ stack = <<>>

InitConfig ==
  /\ IdleTool
  /\ InitPluginManager
  /\ InitErrorHandler
  /\ InitCalls
  /\ \E file \in InitialFiles, writable \in BOOLEAN :
       LET r == load_config(file, writable) IN
       /\ cm_config = r.config
       /\ settings_file = r.file
       /\ cm_calls = IF r.outcome.kind = "return" THEN <<CalledSave(writable)>> ELSE <<>>
       /\ event = Wrapped("load_config", "whole", r.outcome)
  /\ listeners = <<>>

NextConfig ==
  \/ \E writable \in BOOLEAN : LoadConfig(writable) /\ UNCHANGED <<toolVars, callVars, pluginVars, statsVars>>
  \/ \E writable \in BOOLEAN : SaveConfig(writable) /\ UNCHANGED <<toolVars, callVars, pluginVars, statsVars>>
  \/ \E kv \in SetInputs, writable \in BOOLEAN : Set(kv, writable) /\ UNCHANGED <<toolVars, callVars, pluginVars, statsVars>>
  \/ \E l \in ListenerNames : AddListener(l) /\ UNCHANGED <<toolVars, callVars, pluginVars, statsVars>>
  \/ \E l \in ListenerNames : RemoveListener(l) /\ UNCHANGED <<toolVars, callVars, pluginVars, statsVars>>

SpecConfig == InitConfig /\ [][NextConfig]_vars

\* ------------------------------------------- listeners that edit the list
NextNotify ==
  \/ \E kv \in {x \in SetInputs : x.key = "ui"} :
       Set(kv, TRUE) /\ UNCHANGED <<toolVars, callVars, pluginVars, statsVars>>
  \/ \E l \in ListenerNames \cup EditingListeners :
       AddListener(l) /\ UNCHANGED <<toolVars, callVars, pluginVars, statsVars>>
  \/ \E l \in ListenerNames \cup EditingListeners :
       RemoveListener(l) /\ UNCHANGED <<toolVars, callVars, pluginVars, statsVars>>

SpecNotify == InitConfig /\ [][NextNotify]_vars

\* ---------------------------------------------------- the PluginManager alone
InitPlugins ==
  /\ IdleTool
  /\ InitConfigManager
  /\ InitErrorHandler
  /\ InitCalls
  /\ descriptors \in Catalogues
  /\ UntouchedFiles
  /\ EmptyPluginManager
  /\ event = Plain("__init__", Returned(NoneValue))

NextPlugins ==
  \/ \E name \in PluginNames, env \in Environments :
       LoadPlugin(name, env) /\ UNCHANGED <<toolVars, callVars, configVars, statsVars>>
  \/ \E name \in PluginNames, env \in Environments :
       UnloadPlugin(name, env) /\ UNCHANGED <<toolVars, callVars, configVars, statsVars>>
  \/ \E name \in PluginNames, env \in Environments :
       ReloadPlugin(name, env) /\ UNCHANGED <<toolVars, callVars, configVars, statsVars>>
  \/ \E env \in Environments : LoadAllPlugins(env) /\ UNCHANGED <<toolVars, callVars, configVars, statsVars>>

SpecPlugins == InitPlugins /\ [][NextPlugins]_vars

\* -------------------------------------- plugins under the names they declare
\* Plugin directories where the module C declares the name "Gamma", with or
\* without B needing A, beside one where every name is that of the module.
RenamedCatalogues ==
  {[A |-> PluginMetadata("A", 50, <<>>, TRUE), B |-> PluginMetadata("B", 10, deps, TRUE),
    C |-> PluginMetadata(declared, 100, <<>>, TRUE)] :
     deps \in {<<>>, <<"A">>}, declared \in {"C", "Gamma"}}

\* The names callers pass: those of the modules and those declared.
PluginKeys == PluginNames \cup {descriptors[n].name : n \in PluginNames}

InitNames ==
  /\ IdleTool
  /\ InitConfigManager
  /\ InitErrorHandler
  /\ InitCalls
  /\ descriptors \in RenamedCatalogues
  /\ UntouchedFiles
  /\ EmptyPluginManager
  /\ event = Plain("__init__", Returned(NoneValue))

NextNames ==
  \/ \E name \in PluginNames :
       LoadPlugin(name, NoFault) /\ UNCHANGED <<toolVars, callVars, configVars, statsVars>>
  \/ \E name \in PluginKeys :
       UnloadPlugin(name, NoFault) /\ UNCHANGED <<toolVars, callVars, configVars, statsVars>>
  \/ \E name \in PluginKeys :
       ReloadPlugin(name, NoFault) /\ UNCHANGED <<toolVars, callVars, configVars, statsVars>>
  \/ LoadAllPlugins(NoFault) /\ UNCHANGED <<toolVars, callVars, configVars, statsVars>>
  \/ \E name \in PluginNames :
       Edit(name) /\ UNCHANGED <<toolVars, callVars, configVars, statsVars>>
  \/ \E order \in Orders(DOMAIN plugins) :
       CheckUpdates(order, 0, NoFault) /\ UNCHANGED <<toolVars, callVars, configVars, statsVars>>

SpecNames == InitNames /\ [][NextNames]_vars

\* ------------------------------------------ plugins that need each other
\* Plugin directories with a cycle: A and B needing each other beside an
\* independent C; C needing itself; a ring A -> B -> C -> A.
CyclicCatalogues ==
  {[A |-> PluginMetadata("A", 50, <<"B">>, TRUE), B |-> PluginMetadata("B", 10, <<"A">>, TRUE),
    C |-> PluginMetadata("C", 100, <<>>, TRUE)],
   [A |-> PluginMetadata("A", 50, <<>>, TRUE), B |-> PluginMetadata("B", 10, <<"A">>, TRUE),
    C |-> PluginMetadata("C", 100, <<"C">>, TRUE)],
   [A |-> PluginMetadata("A", 50, <<"B">>, TRUE), B |-> PluginMetadata("B", 10, <<"C">>, TRUE),
    C |-> PluginMetadata("C", 100, <<"A">>, TRUE)]}

InitCycles ==
  /\ IdleTool
  /\ InitConfigManager
  /\ InitErrorHandler
  /\ InitCalls
  /\ descriptors \in CyclicCatalogues
  /\ UntouchedFiles
  /\ EmptyPluginManager
  /\ event = Plain("__init__", Returned(NoneValue))

NextCycles ==
  \/ \E name \in PluginNames, env \in Environments :
       LoadPlugin(name, env) /\ UNCHANGED <<toolVars, callVars, configVars, statsVars>>
  \/ \E name \in PluginNames, env \in Environments :
       UnloadPlugin(name, env) /\ UNCHANGED <<toolVars, callVars, configVars, statsVars>>

SpecCycles == InitCycles /\ [][NextCycles]_vars

\* ------------------------------------------------- plugins that are edited
\* What goes wrong during a check for updates: nothing, or a source file that
\* cannot be read.
UpdateEnvironments == {NoFault} \cup [plugin : PluginNames, fault : {"mtime"}]

\* Keys deleted from self.plugins before: none, or as many as leave no room.
Deletions == {0, TableRoom - Cardinality(DOMAIN plugins)}

InitUpdates ==
  /\ IdleTool
  /\ InitConfigManager
  /\ InitErrorHandler
  /\ InitCalls
  /\ descriptors \in {c \in Catalogues : c["A"].enabled /\ c["C"].dependencies = <<>>}
  /\ UntouchedFiles
  /\ EmptyPluginManager
  /\ event = Plain("__init__", Returned(NoneValue))

NextUpdates ==
  \/ \E name \in PluginNames :
       LoadPlugin(name, NoFault) /\ UNCHANGED <<toolVars, callVars, configVars, statsVars>>
  \/ \E name \in PluginNames :
       Edit(name) /\ UNCHANGED <<toolVars, callVars, configVars, statsVars>>
  \/ \E order \in Orders(DOMAIN plugins), env \in UpdateEnvironments,
        deleted \in Deletions :
       CheckUpdates(order, deleted, env) /\ UNCHANGED <<toolVars, callVars, configVars, statsVars>>

SpecUpdates == InitUpdates /\ [][NextUpdates]_vars

\* ----------------------------------------------------- the ErrorHandler alone
\* Fresh statistics, beside a PluginManager with nothing loaded or with A and
\* the B that needs it loaded.
InitErrors ==
  /\ IdleTool
  /\ InitConfigManager
  /\ InitErrorHandler
  /\ InitCalls
  /\ descriptors \in {c \in Catalogues : c["B"].dependencies = <<"A">> /\ c["A"].enabled
                                         /\ c["C"].dependencies = <<>>}
  /\ \E loaded \in {{}, {"A", "B"}} :
       /\ plugins = [n \in loaded |-> "old"]
       /\ metadata_cache = loaded
       /\ file_watchers = [n \in loaded |-> 1]
  /\ UntouchedFiles
  /\ disabled_plugins = {}
  /\ pm_request = Request("", "", NoFault)
  /\ pm_calls = <<>>
  /\ event = Plain("__init__", Returned(NoneValue))

NextErrors ==
  \/ \E e \in RaisedErrors, plugin_name \in {"", "A"},
        env \in {NoFault, [plugin |-> "A", fault |-> "init_raises"]} :
       HandleRaised(e, plugin_name, env) /\ UNCHANGED <<toolVars, callVars, configVars>>
  \/ ClearErrorStats /\ UNCHANGED <<toolVars, callVars, configVars>>

SpecErrors == InitErrors /\ [][NextErrors]_vars

\* -------------------------------------------------------- ErrorStats alone
\* record_error and clear_stats called on fresh statistics.
InitStats ==
  /\ IdleTool
  /\ InitConfigManager
  /\ InitPluginManager
  /\ InitErrorHandler
  /\ InitCalls
  /\ event = Plain("__init__", Returned(NoneValue))

NextStats ==
  \/ \E e \in {PluginError("plugin failed")} :
       RecordError(e) /\ UNCHANGED <<toolVars, callVars, configVars>>
  \/ ClearStats /\ UNCHANGED <<toolVars, callVars, configVars>>

SpecStats == InitStats /\ [][NextStats]_vars

\* --------------------------------------------------- ProcessInjector.inject
InitInject ==
  /\ IdleTool
  /\ InitManagers
  /\ event = Plain("__init__", Returned(NoneValue))

NextInject ==
  \/ \E method \in InjectMethods : \E env \in InjectEnvironments(method) :
       Inject(method, env) /\ UNCHANGED <<toolVars, configVars, pluginVars, statsVars>>
  \/ CallReturn /\ UNCHANGED <<toolVars, configVars, pluginVars, statsVars>>

SpecInject == InitInject /\ [][NextInject]_vars

\* ------------------------------------------- the ConfigManager from its start
\* ConfigManager._initialize: an empty configuration, whatever settings file
\* the process finds, and load_config as the first operation.
InitLoad ==
  /\ IdleTool
  /\ InitPluginManager
  /\ InitErrorHandler
  /\ InitCalls
  /\ cm_config = EmptyDict
  /\ settings_file \in InitialFiles \cup StaleFiles
  /\ listeners = <<>>
  /\ cm_calls = <<>>
  /\ event = Enter("_initialize")

NextLoad ==
  \/ \E writable \in BOOLEAN : LoadConfig(writable) /\ UNCHANGED <<toolVars, callVars, pluginVars, statsVars>>
  \/ \E writable \in BOOLEAN :
       /\ cm_config # EmptyDict
       /\ SaveConfig(writable)
       /\ UNCHANGED <<toolVars, callVars, pluginVars, statsVars>>
  \/ \E kv \in SetInputs \cup TupleInputs, writable \in BOOLEAN :
       /\ cm_config # EmptyDict
       /\ Set(kv, writable)
       /\ UNCHANGED <<toolVars, callVars, pluginVars, statsVars>>

SpecLoad == InitLoad /\ [][NextLoad]_vars

\* ------------------------------------------------- the Obfuscator's file copy
NextObfuscate ==
  \/ /\ call_args = NoCall
     /\ \E cfg \in ObfuscateConfigs, input_file \in InputFiles :
          Obfuscate(cfg, input_file)
     /\ UNCHANGED <<toolVars, configVars, pluginVars, statsVars>>
  \/ CallReturn /\ UNCHANGED <<toolVars, configVars, pluginVars, statsVars>>

SpecObfuscate == InitInject /\ [][NextObfuscate]_vars

\* ------------------------------------------------- the PEInjector's strategies
NextPE ==
  \/ /\ call_args = NoCall
     /\ \E sections \in SearchedImages, size \in SearchedSizes :
          FindCodeCave(sections, size)
     /\ UNCHANGED <<toolVars, configVars, pluginVars, statsVars>>
  \/ /\ call_args = NoCall
     /\ \E pe \in Images, shellcode_size \in Payloads, cfg \in StrategyConfigs :
          InjectNewSection(pe, shellcode_size, cfg)
     /\ UNCHANGED <<toolVars, configVars, pluginVars, statsVars>>
  \/ CallReturn /\ UNCHANGED <<toolVars, configVars, pluginVars, statsVars>>

SpecPE == InitInject /\ [][NextPE]_vars

\* ======================================================================
\* Properties of the tool framework
\* ======================================================================
Completed(op) == event.op = op /\ event.phase \in {"exit", "whole"}
ExecutingNow == \E i \in 1..Len(stack) : stack[i].op = "execute"

\* C1 -- Execute guard: a call of execute() made while the status is not
\* ready never starts _execute, never sets the status to running, and leaves
\* status, progress and last error as they were before the call.
C1_ExecuteGuard ==
  [][(event'.op = "execute" /\ event'.phase # "exit" /\ status # "ready")
       => /\ event'.phase = "whole"
          /\ stack' = stack
          /\ status' = status
          /\ progress' = progress
          /\ error' = error]_vars

\* A rejected execute() on a tool that was cleaned after a run: the trackers
\* of the run are still in place.
C1_Witness ==
  /\ event.op = "execute" /\ event.phase = "whole"
  /\ status = "cleaned"
  /\ progress.start_time > 0

\* C2 (as claimed) -- Execute outcome: the status is running for the whole
\* time _execute runs; ready when execute() finishes after _execute returned;
\* error, with the raised exception as last error, after _execute raised.
C2_Original ==
  /\ ExecutingNow => status = "running"
  /\ (event.op = "execute" /\ event.phase = "exit") =>
       IF event.raised = NoError
         THEN status = "ready"
         ELSE status = "error" /\ error = event.raised

\* C2 (amended) -- the status is running when _execute starts and, while
\* _execute runs, only a call of pause(), reset(), initialize(), cleanup() or
\* a nested execute() takes it away from running; it is ready when execute()
\* finishes after _execute returned, and error with the raised exception as
\* last error after _execute raised.
C2_ExecuteOutcome ==
  /\ [](/\ (event.op = "execute" /\ event.phase = "enter") => status = "running"
        /\ (event.op = "execute" /\ event.phase = "exit") =>
             IF event.raised = NoError
               THEN status = "ready"
               ELSE status = "error" /\ error = event.raised)
  /\ [][(ExecutingNow /\ ExecutingNow' /\ status = "running" /\ status' # "running")
          => event'.op \in {"pause", "reset", "initialize", "cleanup", "execute"}]_vars

\* execute() finished after _execute raised.
C2_Witness ==
  /\ event.op = "execute" /\ event.phase = "exit"
  /\ event.raised # NoError
  /\ status = "error"

\* C3 (as claimed) -- Initialize outcome: a fresh tool is uninitialized;
\* after initialize() the status is ready exactly when validation, the
\* dependency and permission checks and _initialize all succeeded, otherwise
\* it is error and the triggering exception is the last error.
C3_Claim ==
  /\ event.op = "__init__" => status = "uninitialized"
  /\ Completed("initialize") =>
       LET succeeded == event.raised = NoError /\ event.outcome.value = Bool(TRUE) IN
       /\ status = "ready" <=> succeeded
       /\ ~succeeded => /\ status = "error"
                        /\ error # NoError
                        /\ event.raised # NoError => error = event.raised

\* C4 (as claimed) -- a concrete tool's execute() in status ready whose
\* operation fails ends in status error with that failure as last error; the
\* status is ready afterwards only if the operation succeeded.
C4_Claim ==
  (variant # "Abstract" /\ event.op = "execute" /\ event.phase = "exit") =>
     /\ status = "ready" => event.outcome.value = Bool(TRUE)
     /\ IsErrorResult(event.outcome.value) => status = "error" /\ error # NoError

\* The operations wrapped by error_handler and the types they declare.
WrappedOps == {"initialize", "execute", "cleanup", "validate_config",
               "obfuscate", "inject", "list_processes"} \cup ManagerOps

DeclaredTypes(op) ==
  CASE op \in {"initialize", "validate_config", "obfuscate", "inject",
               "load_plugin", "unload_plugin", "reload_plugin"} -> {"bool"}
    [] op \in {"cleanup", "load_config", "save_config", "set"} -> {"NoneType"}
    [] op = "list_processes" -> {"list"}
    [] op = "load_all_plugins" -> {"dict"}
    [] OTHER -> {"bool", "NoneType", "str", "dict", "list", "error_result"}

\* C5 -- Error-wrapper boundary: a completed call of a wrapped operation never
\* hands an exception to its caller; the caller gets a value of the declared
\* kind or a structured result whose status field is "error", and gets the
\* structured result whenever the body raised.
C5_WrapperBoundary ==
  (event.op \in WrappedOps /\ event.phase \in {"exit", "whole"}) =>
     /\ event.outcome.kind = "return"
     /\ \/ event.outcome.value.type \in DeclaredTypes(event.op)
        \/ IsErrorResult(event.outcome.value)
     /\ IsErrorResult(event.outcome.value) => event.outcome.value.val.status = "error"
     /\ event.raised # NoError => IsErrorResult(event.outcome.value)

\* A manager operation whose body raised an exception that is no
\* BedToolsError, and whose caller got the structured result.
C5_Witness ==
  /\ event.op = "execute_plugin_method"
  /\ event.raised.cls = "RuntimeError"
  /\ event.outcome.kind = "return"
  /\ IsErrorResult(event.outcome.value)

RejectedExecute == event.op = "execute" /\ event.phase = "whole"

\* C6 (as claimed) -- execute() on a tool that is not ready ends by an
\* Operation error being thrown out of execute() to the caller.
C6_Original ==
  RejectedExecute =>
     /\ event.outcome.kind = "raise"
     /\ event.outcome.exc.cls = "OperationError"

\* C6 (amended) -- execute() on a tool that is not ready raises an Operation
\* error inside the call, which the wrapper hands to the caller as a returned
\* structured result with status "error", code ERR_OPERATION and type
\* "operation"; no exception leaves execute().
C6_RejectedExecuteResult ==
  RejectedExecute =>
     /\ status # "ready"
     /\ event.raised.cls = "OperationError"
     /\ event.outcome.kind = "return"
     /\ IsErrorResult(event.outcome.value)
     /\ event.outcome.value.val.status = "error"
     /\ event.outcome.value.val.error_code = "ERR_OPERATION"
     /\ event.outcome.value.val.type = "operation"

\* execute() called on a tool that was never initialized.
C6_Witness ==
  /\ RejectedExecute
  /\ status = "uninitialized"
  /\ IsErrorResult(event.outcome.value)

\* C7 (as claimed) -- Status-machine conformance: initializing is entered only
\* from uninitialized, running only from ready or paused, paused only from
\* running, cleaned only from cleaning, and only reset() leaves cleaned.
C7_Claim ==
  [][/\ (status' = "initializing" /\ status # "initializing") => status = "uninitialized"
     /\ (status' = "running" /\ status # "running") => status \in {"ready", "paused"}
     /\ (status' = "paused" /\ status # "paused") => status = "running"
     /\ (status' = "cleaned" /\ status # "cleaned") => status = "cleaning"
     /\ (status = "cleaned" /\ status' # "cleaned") => event'.op = "reset"]_vars

\* C8 -- pause() changes the status only from running, to paused, and
\* resume() only from paused, to running; in every other status, and in every
\* case for the other fields (progress, resource usage, last error, config),
\* they change nothing.
C8_PauseResumeFrame ==
  [][/\ event'.op = "pause" =>
          /\ status' = (IF status = "running" THEN "paused" ELSE status)
          /\ UNCHANGED <<progress, resource_usage, error, config>>
     /\ event'.op = "resume" =>
          /\ status' = (IF status = "paused" THEN "running" ELSE status)
          /\ UNCHANGED <<progress, resource_usage, error, config>>]_vars

\* resume() has just put a paused run back to running.
C8_Witness ==
  /\ event.op = "resume"
  /\ status = "running"
  /\ InHook("execute")
  /\ resource_usage # ResourceUsage

\* C9 -- reset() always ends with status uninitialized, a fresh progress
\* tracker, a fresh resource-usage tracker and no last error: the trackers
\* of a newly constructed tool.
C9_ResetOutcome ==
  event.op = "reset" =>
     /\ status = "uninitialized"
     /\ progress.current = 0 /\ progress.total = 0
     /\ progress.message = "" /\ progress.details = <<>>
     /\ progress.start_time = 0 /\ progress.last_update_time = 0
     /\ resource_usage.memory_usage = 0 /\ resource_usage.cpu_usage = 0
     /\ resource_usage.disk_usage = 0 /\ resource_usage.network_usage = 0
     /\ resource_usage.last_update_time = 0
     /\ error = NoError

\* reset() called during a run, whose progress timing had been started.
C9_Witness ==
  /\ event.op = "reset"
  /\ InHook("execute")
  /\ status = "uninitialized"
  /\ progress.start_time = 0

C11_Claim ==
  [][\A name \in ConfigNames \ {"none"} :
       \A importable \in SUBSET dependencies(variant) :
         (/\ Initialize(name, importable)
          /\ ~_validate_config_schema(SampleConfig(variant, name), config_schema(variant)))
           => /\ event'.phase = "whole"
              /\ event'.raised.cls = "OperationError"
              /\ status' = "error"
              /\ stack' = stack
              /\ config' = config]_vars

\* C12 (as claimed) -- Default tool configuration: when initialize() succeeds
\* on a concrete tool that was given no explicit config, the tool's config is
\* the documented default mapping of its variant.
C12_Claim ==
  [][(/\ variant # "Abstract"
      /\ config = ConfigManagerObj
      /\ event'.op = "initialize" /\ event'.phase = "exit"
      /\ status' = "ready")
       => config' = default_config(variant)]_vars

\* ======================================================================
\* Properties of the ConfigManager
\* ======================================================================
ValidFile(file) == file.type = "dict" /\ validate(file)
EffectiveSet(kv) == get(cm_config, kv.key) # kv.value

\* C13 (as claimed) -- Persisted-configuration invariant: whatever
\* load_config(), set() and save_config() write to the settings file
\* validates against the schema; a set that makes ui.theme "blue" never
\* reaches the file.
C13_Claim ==
  [][settings_file' # settings_file => ValidFile(settings_file')]_vars

C15_NoOpSet ==
  [][\A kv \in SetInputs, writable \in BOOLEAN :
       (Set(kv, writable) /\ ~EffectiveSet(kv)) =>
         /\ cm_config' = cm_config
         /\ settings_file' = settings_file
         /\ cm_calls' = <<>>
         /\ listeners' = listeners]_vars

\* A no-op set with listeners registered and a file that differs from the
\* configuration in memory (an earlier write had failed).
C15_Witness ==
  /\ event.op = "set"
  /\ cm_calls = <<>>
  /\ Len(listeners) = 2
  /\ settings_file.type = "dict"
  /\ settings_file # Persisted(cm_config)

\* ======================================================================
\* Properties of the PluginManager
\* ======================================================================
\* The loaded plugins, other than a, whose metadata names a as a dependency.
Blockers(a) ==
  {b \in (DOMAIN plugins) \ {a} : a \in Range(descriptors[b].dependencies)}

CallsOf(calls, call, name) ==
  {i \in 1..Len(calls) : calls[i].call = call /\ calls[i].plugin = name}

\* C16 -- Unload is blocked by dependents: unload_plugin(A) while another
\* loaded plugin B names A among its dependencies fails with a Plugin error
\* that names B, without calling A's cleanup(), and A stays in the registry,
\* the metadata cache and the file-watch table; A leaves the registry only in
\* a step at whose start no loaded plugin depends on it.
C16_UnloadBlocked ==
  /\ [][\A a \in PluginNames :
          (/\ pm_request'.op = "unload_plugin" /\ pm_request'.plugin = a
           /\ a \in DOMAIN plugins /\ Blockers(a) # {}) =>
            /\ event'.raised.cls = "PluginError"
            /\ event'.raised.msg = UnloadFailed(a, HasDependents(a, Blockers(a))).msg
            /\ IsErrorResult(event'.outcome.value)
            /\ event'.outcome.value.val.error_code = "ERR_PLUGIN"
            /\ CallsOf(pm_calls', "cleanup", a) = {}
            /\ a \in DOMAIN plugins' /\ plugins'[a] = "old"
            /\ a \in metadata_cache'
            /\ a \in DOMAIN file_watchers']_vars
  /\ [][\A a \in PluginNames :
          (a \in DOMAIN plugins /\ a \notin DOMAIN plugins') => Blockers(a) = {}]_vars

\* unload_plugin("A") refused because the loaded B needs A.
C16_Witness ==
  /\ event.op = "unload_plugin"
  /\ pm_calls = <<[call |-> "unload_plugin", plugin |-> "A", registry |-> {"A", "B"}]>>
  /\ event.raised.msg = UnloadFailed("A", HasDependents("A", {"B"})).msg
  /\ DOMAIN plugins = {"A", "B"}

\* C17 (as claimed) -- Dependencies are loaded first or the load fails:
\* whenever load_plugin initializes a plugin P, every plugin named in P's
\* metadata dependencies is in the registry at that moment; a dependency
\* that cannot be loaded makes the load of P fail before P is initialized.
C17_Claim ==
  \A i \in 1..Len(pm_calls) :
    pm_calls[i].call = "initialize" =>
      Range(descriptors[pm_calls[i].plugin].dependencies) \subseteq pm_calls[i].registry

\* C18 (as claimed) -- reload_plugin(name) on a plugin that is not loaded, or
\* whose unload fails (a loaded plugin depends on it, or its cleanup raises),
\* returns false without calling load_plugin and leaves the registered
\* instances as they were.
C18_Claim ==
  [][\A name \in PluginNames :
       (/\ pm_request'.op = "reload_plugin" /\ pm_request'.plugin = name
        /\ \/ name \notin DOMAIN plugins
           \/ Blockers(name) # {}
           \/ Faulty(pm_request'.env, name, "cleanup_raises")) =>
         /\ event'.outcome.value = Bool(FALSE)
         /\ CallsOf(pm_calls', "load_plugin", name) = {}
         /\ DOMAIN plugins' = DOMAIN plugins
         /\ \A n \in DOMAIN plugins' : plugins'[n] = "old"]_vars

order(name) == descriptors[name].load_order
Inits(calls, name) == CallsOf(calls, "initialize", name)
FirstInit(calls, name) ==
  CHOOSE i \in Inits(calls, name) : \A j \in Inits(calls, name) : i <= j
LoadedNow(name) == name \in DOMAIN plugins /\ plugins[name] = "new"

RECURSIVE TransitiveDependencies(_)
TransitiveDependencies(name) ==
  LET direct == Range(descriptors[name].dependencies) IN
  direct \cup UNION {TransitiveDependencies(d) : d \in direct}

\* C19 (as claimed) -- load_all_plugins() initializes the discovered plugins
\* in ascending load_order: of two plugins both loaded by the call, the one
\* with the smaller load_order is initialized first; the call returns a
\* mapping keyed by the ordered plugin names.
C19_Original ==
  event.op = "load_all_plugins" =>
    /\ \A x \in PluginNames, y \in PluginNames :
         (order(x) < order(y) /\ LoadedNow(x) /\ LoadedNow(y)) =>
            FirstInit(pm_calls, x) < FirstInit(pm_calls, y)
    /\ event.outcome.value.type = "dict"

\* C19 (amended) -- load_all_plugins() loads the discovered plugins whose
\* descriptor can be read in ascending load_order, each load initializing the
\* plugin's unregistered dependencies first: of two plugins initialized during
\* the call, the one with the smaller load_order has its first initialize()
\* first, unless the other is a (transitive) dependency of an ordered plugin
\* whose load_order is not larger; the call returns a mapping from each
\* ordered name to the result of its load_plugin call, which is true exactly
\* for the plugins the call registered.
C19_LoadAllOrder ==
  [][pm_request'.op = "load_all_plugins" =>
         LET calls == pm_calls'
             env == pm_request'.env
             result == event'.outcome.value IN
         /\ \A x \in PluginNames, y \in PluginNames :
              (/\ order(x) < order(y)
               /\ Inits(calls, x) # {} /\ Inits(calls, y) # {}
               /\ ~\E z \in Ordered(env) :
                     order(z) <= order(x) /\ y \in TransitiveDependencies(z)) =>
                 FirstInit(calls, x) < FirstInit(calls, y)
         /\ result.type = "dict"
         /\ DOMAIN result.val = Ordered(env)
         /\ \A n \in DOMAIN result.val :
              result.val[n] = Bool(TRUE) <=> (n \in DOMAIN plugins' /\ plugins'[n] = "new")
         /\ \A n \in PluginNames \ DOMAIN result.val :
              ~(n \in DOMAIN plugins' /\ plugins'[n] = "new")]_vars

\* load_all_plugins() over the directory where B (load_order 10) needs A
\* (load_order 50): A was initialized for B, then B, then A again on its own
\* turn, then C.
C19_Witness ==
  /\ event.op = "load_all_plugins"
  /\ descriptors["B"].dependencies = <<"A">>
  /\ descriptors["C"].dependencies = <<>>
  /\ LoadedNow("A") /\ LoadedNow("B") /\ LoadedNow("C")
  /\ FirstInit(pm_calls, "A") < FirstInit(pm_calls, "B")
  /\ FirstInit(pm_calls, "B") < FirstInit(pm_calls, "C")
  /\ Cardinality(Inits(pm_calls, "A")) = 2

\* ======================================================================
\* Properties of the error statistics
\* ======================================================================
ErrorCodes == {"ERR_UNKNOWN", "ERR_VALIDATION", "ERR_SECURITY", "ERR_PLUGIN",
               "ERR_OPERATION", "ERR_CONFIG", "ERR_NETWORK", "ERR_DATABASE",
               "ERR_PERMISSION", "ERR_RESOURCE"}
TypedClasses == {"BedToolsError", "ValidationError", "SecurityError", "PluginError",
                 "OperationError"}
\* The typed errors among those handled since the last clear.
TypedHandled == SelectSeq(handled, LAMBDA e : e.cls \in TypedClasses)
CountOf(d, k) == IF k \in DOMAIN d THEN d[k] ELSE 0
RECURSIVE SumOver(_, _)
SumOver(d, keys) ==
  IF keys = {} THEN 0
  ELSE LET k == CHOOSE x \in keys : TRUE IN d[k] + SumOver(d, keys \ {k})
Sum(d) == SumOver(d, DOMAIN d)

\* C20 -- Error statistics count handled errors exactly: total_errors is the
\* number of typed errors handled since the last clear, errors_by_code[c] the
\* number of them with code c, and in every state total_errors equals the sum
\* of errors_by_code, of errors_by_severity and of errors_by_category.
C20_ErrorStats ==
  /\ error_stats.total_errors = Len(TypedHandled)
  /\ \A c \in ErrorCodes :
       CountOf(error_stats.errors_by_code, c) =
         Cardinality({i \in 1..Len(TypedHandled) : TypedHandled[i].error_code = c})
  /\ DOMAIN error_stats.errors_by_code \subseteq ErrorCodes
  /\ error_stats.total_errors = Sum(error_stats.errors_by_code)
  /\ error_stats.total_errors = Sum(error_stats.errors_by_severity)
  /\ error_stats.total_errors = Sum(error_stats.errors_by_category)

\* Three Validation errors and one Plugin error were handled.
C20_Witness ==
  /\ error_stats.total_errors = 4
  /\ DOMAIN error_stats.errors_by_code = {"ERR_VALIDATION", "ERR_PLUGIN"}
  /\ error_stats.errors_by_code["ERR_VALIDATION"] = 3
  /\ error_stats.errors_by_code["ERR_PLUGIN"] = 1

\* The last n entries of a sequence.
LastOf(seq, n) == SubSeq(seq, Len(seq) - n + 1, Len(seq))
Min(a, b) == IF a < b THEN a ELSE b

\* C21 -- Bounded error history: after n errors recorded since the last clear
\* the history holds the min(n, 1000) most recently recorded ones in recording
\* order, total_errors is n, and the last-error time is that of the newest
\* error; with nothing recorded since the last clear every counter is zero,
\* the history is empty and there is no last-error time.
C21_BoundedHistory ==
  LET n == Len(handled) IN
  /\ Len(error_stats.error_history) = Min(n, 1000)
  /\ error_stats.error_history =
       [i \in 1..Min(n, 1000) |-> error_info(LastOf(handled, Min(n, 1000))[i])]
  /\ error_stats.total_errors = n
  /\ n > 0 => error_stats.last_error_time = handled[n].timestamp
  /\ n = 0 => /\ error_stats.errors_by_code = <<>>
              /\ error_stats.errors_by_severity = <<>>
              /\ error_stats.errors_by_category = <<>>
              /\ error_stats.last_error_time = NoneValue

\* More than 1000 errors were recorded and the oldest ones were dropped.
C21_Witness ==
  /\ error_stats.total_errors > 1000
  /\ Len(error_stats.error_history) = 1000
  /\ error_stats.error_history[1].timestamp = error_stats.total_errors - 999

\* ======================================================================
\* Properties of ProcessInjector.inject
\* ======================================================================
\* The positions of a trace of native calls at which handle h is opened,
\* closed, and used.
OpenedAt(calls, h) ==
  {i \in 1..Len(calls) : calls[i].call \in {"OpenProcess", "OpenThread"} /\ calls[i].handle = h}
ClosedAt(calls, h) ==
  {i \in 1..Len(calls) : calls[i].call = "CloseHandle" /\ calls[i].handle = h}
UsedAt(calls, h) ==
  {i \in 1..Len(calls) : calls[i].call \notin {"OpenProcess", "OpenThread", "CloseHandle"}
                          /\ calls[i].handle = h}
Handles == {ProcessHandle} \cup {ThreadHandle(i) : i \in 1..(MaxThreads + 1)}

\* C22 -- Handle discipline in inject: every process handle and thread handle
\* a successful OpenProcess or OpenThread gave is closed exactly once before
\* inject returns, it is closed after it was opened, and no call uses a handle
\* after its close or before its open.
C22_HandleDiscipline ==
  call_args.op = "inject" =>
    \A h \in Handles :
      /\ Cardinality(OpenedAt(call_result, h)) <= 1
      /\ Cardinality(ClosedAt(call_result, h)) = Cardinality(OpenedAt(call_result, h))
      /\ \A o \in OpenedAt(call_result, h), c \in ClosedAt(call_result, h) :
           /\ o < c
           /\ \A u \in UsedAt(call_result, h) : o < u /\ u < c
      /\ OpenedAt(call_result, h) = {} => UsedAt(call_result, h) = {}

\* A thread hijack that fails after its thread was opened, in a process that
\* was opened: both handles are closed.
C22_Witness ==
  /\ call_args.op = "inject"
  /\ call_args.args[1] = "thread_hijack"
  /\ event.raised.cls = "OperationError"
  /\ OpenedAt(call_result, ProcessHandle) # {}
  /\ \E i \in 1..MaxThreads :
       /\ OpenedAt(call_result, ThreadHandle(i)) # {}
       /\ ClosedAt(call_result, ThreadHandle(i)) # {}

\* ======================================================================
\* Properties of loading and saving the configuration
\* ======================================================================
\* A configuration without its "_version" entry.
WithoutVersion(cfg) == [key \in (DOMAIN cfg.val) \ {"_version"} |-> cfg.val[key]]
\* save_config has just written the configuration in memory.
JustSaved == event.op = "save_config" /\ event.raised = NoError
\* A value built of mappings, lists and scalars only.
RECURSIVE JsonKinds(_)
JsonKinds(v) ==
  CASE v.type = "dict" -> \A key \in DOMAIN v.val : JsonKinds(v.val[key])
    [] v.type = "list" -> \A i \in 1..Len(v.val) : JsonKinds(v.val[i])
    [] OTHER -> v.type \in {"str", "int", "bool", "NoneType"}

\* C23 (as claimed) -- Config round-trip: for every configuration in memory
\* that validates, a save_config that writes followed by load_config leaves
\* in memory a configuration equal to the saved one apart from "_version",
\* and that configuration validates.
C23_Original ==
  [][(JustSaved /\ validate(cm_config) /\ event'.op = "load_config") =>
       /\ WithoutVersion(cm_config') = WithoutVersion(cm_config)
       /\ validate(cm_config')]_vars

\* C23 (amended) -- Config round-trip: the same for every valid configuration
\* whose values are mappings, lists, strings, integers, booleans and None.
C23_RoundTrip ==
  [][(JustSaved /\ validate(cm_config) /\ JsonKinds(cm_config) /\ event'.op = "load_config") =>
       /\ WithoutVersion(cm_config') = WithoutVersion(cm_config)
       /\ validate(cm_config')
       /\ event'.raised = NoError]_vars

\* A configuration with a changed section and an extra key has come back from
\* the file that save_config wrote.
C23_Witness ==
  /\ event.op = "load_config"
  /\ event.raised = NoError
  /\ "_version" \in DOMAIN cm_config.val
  /\ "ui.theme" \in DOMAIN cm_config.val
  /\ cm_config.val["ui"] = UiSection("light")
  /\ settings_file = Persisted(cm_config)

\* The settings file is a mapping whose version is not the current one.
StaleFile(file) ==
  /\ file.type = "dict"
  /\ ("_version" \notin DOMAIN file.val \/ file.val["_version"] # Str("1.0.0"))
\* The defaults with the file's values for the default section names.
Overlay(file) ==
  Dict([key \in DOMAIN ConfigManagerDefault.val |->
          IF key \in DOMAIN file.val THEN file.val[key] ELSE ConfigManagerDefault.val[key]])

\* C24 (as claimed) -- Config migration: loading a settings file whose
\* version is not the current one leaves in memory the defaults with the
\* file's values for exactly the default section names, and that
\* configuration is in the settings file with the current version unless the
\* file cannot be written.
C24_Original ==
  [][(StaleFile(settings_file) /\ event'.op = "load_config") =>
       /\ cm_config' = Overlay(settings_file)
       /\ cm_calls' # <<CalledSave(FALSE)>> =>
            settings_file' = Dict(DictUpdate(cm_config'.val, [_version |-> Str("1.0.0")]))]_vars

\* C24 (amended) -- Config migration: when the defaults overlaid with the
\* file's sections validate, they are the configuration in memory afterwards
\* and, if the file can be written, the file holds them with the current
\* version; when they do not validate the load ends in a Validation error,
\* the configuration in memory is the defaults and the file is untouched.
C24_Migration ==
  [][(StaleFile(settings_file) /\ event'.op = "load_config") =>
       IF validate(Overlay(settings_file))
         THEN /\ cm_config' = Overlay(settings_file)
              /\ DOMAIN cm_config'.val = DOMAIN ConfigManagerDefault.val
              /\ settings_file' \in
                   {settings_file,
                    Dict(DictUpdate(cm_config'.val, [_version |-> Str("1.0.0")]))}
              /\ (cm_calls' = <<CalledSave(TRUE)>>) =>
                   settings_file' = Dict(DictUpdate(cm_config'.val, [_version |-> Str("1.0.0")]))
         ELSE /\ cm_config' = ConfigManagerDefault
              /\ settings_file' = settings_file
              /\ event'.raised.cls = "ValidationError"]_vars

\* A file of an old version with two of the default sections and a key of
\* its own was migrated and written back.
C24_Witness ==
  /\ event.op = "load_config"
  /\ cm_config = [ConfigManagerDefault EXCEPT
                    !.val["ui"] = UiSection("light"),
                    !.val["process"] = Dict([refresh_interval |-> IntValue(9),
                                             show_system_processes |-> Bool(TRUE)])]
  /\ settings_file = Persisted(cm_config)

\* ======================================================================
\* Properties of the PEInjector's strategies
\* ======================================================================
\* data holds a run of at least size bytes, each 0x00 or 0xCC, from offset at.
RunAt(data, at, size) ==
  /\ at + size <= Len(data)
  /\ \A k \in 1..size : data[at + k] \in {0, 204}
\* The first executable section with such a run, and the first offset of one in it.
HasCave(sections, size) ==
  \E i \in 1..Len(sections) :
    /\ Executable(sections[i])
    /\ \E at \in 0..Len(sections[i].data) : RunAt(sections[i].data, at, size)
FirstCave(sections, size) ==
  LET i == CHOOSE i \in 1..Len(sections) :
             /\ Executable(sections[i])
             /\ \E at \in 0..Len(sections[i].data) : RunAt(sections[i].data, at, size)
             /\ \A j \in 1..(i - 1) :
                  ~(Executable(sections[j])
                      /\ \E at \in 0..Len(sections[j].data) : RunAt(sections[j].data, at, size))
      at == CHOOSE at \in 0..Len(sections[i].data) :
              /\ RunAt(sections[i].data, at, size)
              /\ \A b \in 0..(at - 1) : ~RunAt(sections[i].data, b, size) IN
  sections[i].VirtualAddress + at

\* C25 -- Code-cave search: _find_code_cave(pe, size) gives a match exactly
\* when an executable section holds a run of at least size bytes that are
\* 0x00 or 0xCC; the address is the virtual address of the first such section
\* plus the offset of its first such run, and the length given is at least
\* size; 40 zero bytes between two other bytes match size 35 and not size 41.
C25_CodeCave ==
  call_args.op = "_find_code_cave" =>
    LET sections == call_args.args[1]
        size == call_args.args[2] IN
    /\ call_result.found <=> HasCave(sections, size)
    /\ call_result.found =>
         /\ call_result.address = FirstCave(sections, size)
         /\ call_result.length >= size
    /\ ~call_result.found => call_result = [found |-> FALSE, address |-> 0, length |-> 0]

\* The run of 40 zero bytes was searched for 35 bytes and found at offset 1.
C25_Witness ==
  /\ call_args.op = "_find_code_cave"
  /\ call_args.args[2] = 35
  /\ Len(call_args.args[1][1].data) = 42
  /\ call_result.found
  /\ call_result.address = 4097
  /\ call_result.length >= 35

\* m is the least multiple of a that is >= v.
LeastMultiple(m, v, a) == m % a = 0 /\ m >= v /\ m - v < a

\* C26 -- New-section header arithmetic: when the new_section strategy
\* succeeds on a payload of n bytes, the section it appended has virtual size
\* n, raw size align(n, F), virtual address align(last.VirtualAddress +
\* last.VirtualSize, S) and raw pointer align(last.PointerToRawData +
\* last.SizeOfRawData, F); the section count is one more, SizeOfImage is the
\* new virtual address plus align(n, S) and the entry point is the new
\* virtual address, align(v, a) being the least multiple of a that is >= v.
C26_NewSection ==
  (call_args.op = "_inject_new_section" /\ call_result.success) =>
    LET pe == call_args.args[1]
        n == call_args.args[2]
        S == pe.SectionAlignment
        F == pe.FileAlignment
        last == pe.sections[Len(pe.sections)]
        out == call_result.pe
        new == out.sections[Len(out.sections)] IN
    /\ Len(out.sections) = Len(pe.sections) + 1
    /\ \A i \in 1..Len(pe.sections) : out.sections[i] = pe.sections[i]
    /\ new.Misc_VirtualSize = n
    /\ LeastMultiple(new.SizeOfRawData, n, F)
    /\ LeastMultiple(new.VirtualAddress, last.VirtualAddress + last.Misc_VirtualSize, S)
    /\ LeastMultiple(new.PointerToRawData, last.PointerToRawData + last.SizeOfRawData, F)
    /\ out.NumberOfSections = pe.NumberOfSections + 1
    /\ LeastMultiple(out.SizeOfImage - new.VirtualAddress, n, S)
    /\ out.AddressOfEntryPoint = new.VirtualAddress

\* A payload of 300 bytes with S = 0x1000 and F = 0x200: raw size 512,
\* virtual size 300.
C26_Witness ==
  /\ call_args.op = "_inject_new_section"
  /\ call_result.success
  /\ call_args.args[2] = 300
  /\ call_args.args[1].SectionAlignment = 4096
  /\ call_args.args[1].FileAlignment = 512
  /\ call_result.pe.sections[2].SizeOfRawData = 512
  /\ call_result.pe.sections[2].Misc_VirtualSize = 300

\* ======================================================================
\* Properties of the plugin registry
\* ======================================================================
\* The initialize() of the call gave true: the instance was registered.
Registered(env, name) ==
  ~Faulty(env, name, "init_false") /\ ~Faulty(env, name, "init_raises")

\* C27 (as claimed) -- An initialized instance is cleaned up before it is
\* dropped: load_plugin on a name that is in the registry (a second explicit
\* load, or load_all_plugins reaching a plugin it loaded as a dependency)
\* does not initialize a second instance that takes the place of the first.
C27_Claim ==
  \A i \in 1..Len(pm_calls) :
    (pm_calls[i].call = "initialize" /\ Registered(pm_request.env, pm_calls[i].plugin)) =>
       pm_calls[i].plugin \notin pm_calls[i].registry

\* C28 (as claimed) -- A failed load leaves no trace: when load_plugin(P)
\* does not give true, the registry, the metadata cache and the file-watch
\* table are as they were before the call; a dependency loaded on behalf of
\* P during the call does not stay registered.
C28_Claim ==
  [][(pm_request'.op = "load_plugin" /\ event'.outcome.value # Bool(TRUE)) =>
       /\ DOMAIN plugins' = DOMAIN plugins
       /\ \A n \in DOMAIN plugins' : plugins'[n] = "old"
       /\ metadata_cache' = metadata_cache
       /\ file_watchers' = file_watchers]_vars

\* The plugins whose descriptor names the plugin as a dependency.
Dependents(name) == {d \in PluginNames : name \in Range(descriptors[d].dependencies)}

\* C29 (as claimed) -- load_plugin(P) ends for every plugin directory,
\* including one where plugins need each other or themselves: the call
\* enters load_plugin for each plugin a number of times bounded by the
\* directory (once for P, once for each plugin that needs it), never as
\* often as the stack allows, and ends with P registered or reported failed.
C29_Claim ==
  pm_request.op = "load_plugin" =>
    /\ \A n \in PluginNames :
         Cardinality(CallsOf(pm_calls, "load_plugin", n)) <= 1 + Cardinality(Dependents(n))
    /\ event.outcome.value = Bool(TRUE) => pm_request.plugin \in DOMAIN plugins

\* C30 (as claimed) -- check_updates() gives a mapping with an entry for
\* every plugin loaded when it is called, true exactly for the plugins whose
\* source file is newer than the time the watcher holds, and exactly those
\* are reloaded; afterwards the watcher of each reloaded plugin holds the
\* file's modification time, so that a second check gives false for all; a
\* plugin whose check fails gets false and the others are still checked.
\* (Stated for checks during which no cleanup or initialize fails.)
C30_Claim ==
  [][(pm_request'.op = "check_updates" /\ pm_request'.env.fault \in {"", "mtime"}) =>
       LET loaded == DOMAIN plugins
           failed == {n \in loaded : Faulty(pm_request'.env, n, "mtime")}
           newer == {n \in (loaded \cap DOMAIN file_watchers) \ failed :
                       plugin_mtime[n] > file_watchers[n]}
           result == event'.outcome IN
       /\ result.kind = "return"
       /\ result.value.type = "dict"
       /\ DOMAIN result.value.val = loaded
       /\ \A n \in loaded : result.value.val[n] = Bool(n \in newer)
       /\ \A n \in loaded : (CallsOf(pm_calls', "unload_plugin", n) # {}) <=> n \in newer
       /\ \A n \in newer : n \in DOMAIN file_watchers' /\ file_watchers'[n] = plugin_mtime'[n]
       /\ DOMAIN plugins' = loaded]_vars

\* ======================================================================
\* Properties of the order of the steps of ProcessInjector.inject
\* ======================================================================
\* The log without the progress checkpoints, and the checkpoints alone.
Natives(calls) == SelectSeq(calls, LAMBDA c : c.call # "update_progress")
Checkpoints(calls) == SelectSeq(calls, LAMBDA c : c.call = "update_progress")
At(calls, name) == {i \in 1..Len(calls) : calls[i].call = name}
DispatchCalls ==
  {"CreateRemoteThread", "OpenThread", "QueueUserAPC", "SuspendThread",
   "GetThreadContext", "ResumeThread", "_hide_thread"}
\* The method given reported success, by the results of its native calls.
MethodSucceeded(method, env) ==
  LET opened == {i \in 1..Len(env.OpenThread) : env.OpenThread[i]} IN
  CASE method = "classic"       -> env.CreateRemoteThread
    [] method = "apc"           -> \E i \in opened : env.QueueUserAPC[i]
    [] method = "thread_hijack" -> opened # {} /\ env.SuspendThread /\ env.GetThreadContext
    [] OTHER                    -> FALSE

\* C31 -- Ordering of the steps of inject: no native call is made unless the
\* shellcode file exists and the pid is live; memory is allocated only after
\* OpenProcess succeeded, the payload is written only after the allocation
\* succeeded, the method is dispatched only after the write succeeded, and
\* success (checkpoint 5, return true) is reported only after the method
\* reported success; the checkpoints come in the order 1,2,3,4,5 and the
\* close of the process handle is the last native call.
C31_StepOrder ==
  call_args.op = "inject" =>
    LET method == call_args.args[1]
        env == call_args.args[2]
        calls == call_result
        natives == Natives(calls)
        marks == Checkpoints(calls) IN
    /\ (~env.file_exists \/ ~env.pid_exists) =>
         natives = <<>> /\ event.raised.cls = "OperationError"
    /\ \A i \in At(calls, "VirtualAllocEx") :
         env.OpenProcess /\ \E j \in At(calls, "OpenProcess") : j < i
    /\ \A i \in At(calls, "WriteProcessMemory") :
         env.VirtualAllocEx /\ \E j \in At(calls, "VirtualAllocEx") : j < i
    /\ \A i \in 1..Len(calls) :
         calls[i].call \in DispatchCalls =>
           env.WriteProcessMemory /\ \E j \in At(calls, "WriteProcessMemory") : j < i
    /\ (event.outcome.value = Bool(TRUE)
          \/ (marks # <<>> /\ marks[Len(marks)].handle.id = 5)) =>
         /\ MethodSucceeded(method, env)
         /\ event.outcome.value = Bool(TRUE)
         /\ marks[Len(marks)].handle.id = 5
    /\ \A i \in 1..Len(marks) : marks[i].handle.id = i
    /\ Len(marks) <= 5
    /\ (natives # <<>> /\ env.OpenProcess) =>
         natives[Len(natives)] = NativeCall("CloseHandle", ProcessHandle)

\* A classic injection went through all five checkpoints and closed the
\* process handle last.
C31_Witness ==
  /\ call_args.op = "inject"
  /\ call_args.args[1] = "classic"
  /\ event.outcome.value = Bool(TRUE)
  /\ Len(Checkpoints(call_result)) = 5
  /\ call_result[Len(call_result)] = NativeCall("CloseHandle", ProcessHandle)
  /\ At(call_result, "CreateRemoteThread") # {}

\* C32 -- Thread hijack suspend/resume pairing: the hijack reports success
\* only after the thread it suspended was resumed; a failure of the suspend
\* or of the context read makes it report failure; when the suspend
\* succeeds and the context read fails, it reports failure without calling
\* ResumeThread, and the thread's handle is still closed.
C32_SuspendResume ==
  (call_args.op = "inject" /\ call_args.args[1] = "thread_hijack") =>
    LET env == call_args.args[2]
        calls == call_result
        suspended == At(calls, "SuspendThread")
        resumed == At(calls, "ResumeThread") IN
    /\ event.outcome.value = Bool(TRUE) =>
         /\ suspended # {} /\ resumed # {}
         /\ \A i \in suspended, j \in resumed :
              i < j /\ calls[i].handle = calls[j].handle
    /\ \A i \in suspended :
         (~env.SuspendThread \/ ~env.GetThreadContext) =>
           /\ event.raised = OperationError("injection failed")
           /\ resumed = {}
           /\ \E c \in At(calls, "CloseHandle") : c > i /\ calls[c].handle = calls[i].handle
    /\ \A i \in suspended :
         (env.SuspendThread /\ ~env.GetThreadContext) =>
           At(calls, "GetThreadContext") # {} /\ resumed = {}

\* The suspend succeeded, the context read failed: no resume, handle closed.
C32_Witness ==
  /\ call_args.op = "inject"
  /\ call_args.args[1] = "thread_hijack"
  /\ call_args.args[2].SuspendThread
  /\ ~call_args.args[2].GetThreadContext
  /\ At(call_result, "GetThreadContext") # {}
  /\ At(call_result, "ResumeThread") = {}
  /\ event.raised = OperationError("injection failed")

\* ======================================================================
\* Properties of the structured results of ErrorHandler
\* ======================================================================
\* C33 -- Structured result mirrors the error: for every typed error handled
\* by the wrapper, of the base kind or of one of the four concrete kinds,
\* the result has status "error" and the error_code, severity, category and
\* details of the error; a result with the UNKNOWN code for an error whose
\* own code is another one comes only from a failure that is not a typed
\* error, and handling such a failure leaves the error statistics unchanged.
C33_Claim ==
  [][event'.op = "execute_plugin_method" =>
       LET e == event'.raised
           result == event'.outcome.value IN
       /\ IsErrorResult(result)
       /\ IsBedToolsError(e) =>
            /\ result.val.status = "error"
            /\ result.val.error_code = e.error_code
            /\ result.val.severity = e.severity
            /\ result.val.category = e.category
            /\ result.val.details = Details(e)
       /\ (result.val.error_code = "ERR_UNKNOWN" /\ e.error_code # "ERR_UNKNOWN") =>
            ~IsBedToolsError(e)
       /\ ~IsBedToolsError(e) => error_stats' = error_stats]_vars

\* ======================================================================
\* Properties of ConfigManager.load_config
\* ======================================================================
\* The configuration load_config obtains from a readable settings file: the
\* defaults when there is none, the file as it is when its version is the
\* current one, the migrated file otherwise.
Obtained(file) ==
  IF file = Absent THEN ConfigManagerDefault
  ELSE IF "_version" \in DOMAIN file.val /\ file.val["_version"] = Str("1.0.0") THEN file
  ELSE Overlay(file)

\* C34 -- load_config failure fallback: if reading the settings file fails
\* or the configuration obtained (read as it is, migrated, or the defaults)
\* fails validation, then afterwards the configuration in memory equals the
\* defaults, the failure is reported as an error (a Validation error when the
\* validation failed) and the call does not write the settings file; the
\* file is written by load_config only after a successful validation.
C34_LoadFallback ==
  [][event'.op = "load_config" =>
       LET unreadable == settings_file = Corrupt
           invalid == ~unreadable /\ ~validate(Obtained(settings_file)) IN
       /\ (unreadable \/ invalid) =>
            /\ cm_config' = ConfigManagerDefault
            /\ event'.raised # NoError
            /\ IsErrorResult(event'.outcome.value)
            /\ invalid => event'.raised.cls = "ValidationError"
                          /\ event'.outcome.value.val.error_code = "ERR_VALIDATION"
            /\ settings_file' = settings_file
            /\ cm_calls' = <<>>
       /\ (settings_file' # settings_file \/ cm_calls' # <<>>) =>
            /\ ~unreadable
            /\ validate(Obtained(settings_file))
            /\ cm_config' = Obtained(settings_file)]_vars

\* A settings file of the current version whose ui section does not validate
\* was read as it is: the defaults are in memory and the file is as it was.
C34_Witness ==
  /\ event.op = "load_config"
  /\ event.raised.cls = "ValidationError"
  /\ cm_config = ConfigManagerDefault
  /\ settings_file.type = "dict"
  /\ "_version" \in DOMAIN settings_file.val
  /\ settings_file.val["_version"] = Str("1.0.0")
  /\ settings_file.val["ui"] = UiSection("blue")
  /\ cm_calls = <<>>

\* ======================================================================
\* Properties of the notification of configuration listeners
\* ======================================================================
\* C35 -- Notification robust to changes of the listener list made by
\* listeners: during one effective set(), every listener that was registered
\* when the notification began is called exactly once, also when a listener
\* calls remove_listener or add_listener while it is being notified.
C35_Claim ==
  [][(event'.op = "set" /\ cm_calls' # <<>>) =>
       \A i \in 1..Len(listeners) :
         Cardinality({j \in 1..Len(cm_calls') :
                        /\ cm_calls'[j].call = "listener"
                        /\ cm_calls'[j].listener = listeners[i]}) = 1]_vars

\* ======================================================================
\* Properties of the three tables of the PluginManager
\* ======================================================================
\* C36 -- Unload failure keeps the plugin registered: if cleanup() raises
\* during unload_plugin, the call reports a Plugin error and the plugin stays
\* in the registry, the metadata cache and the file-watch table exactly as
\* before; its entries are removed only after cleanup() returned normally.
C36_UnloadFailure ==
  [][\A a \in PluginNames :
       (pm_request'.op = "unload_plugin" /\ pm_request'.plugin = a) =>
         /\ (CallsOf(pm_calls', "cleanup", a) # {} /\ Faulty(pm_request'.env, a, "cleanup_raises")) =>
              /\ event'.raised.cls = "PluginError"
              /\ IsErrorResult(event'.outcome.value)
              /\ event'.outcome.value.val.error_code = "ERR_PLUGIN"
              /\ DOMAIN plugins' = DOMAIN plugins
              /\ a \in DOMAIN plugins' /\ plugins'[a] = "old"
              /\ metadata_cache' = metadata_cache
              /\ file_watchers' = file_watchers
         /\ (DOMAIN plugins' # DOMAIN plugins \/ metadata_cache' # metadata_cache
               \/ file_watchers' # file_watchers) =>
              /\ CallsOf(pm_calls', "cleanup", a) # {}
              /\ ~Faulty(pm_request'.env, a, "cleanup_raises")
              /\ event'.outcome.value = Bool(TRUE)]_vars

\* unload_plugin("A") whose cleanup raised: A and B are registered as before.
C36_Witness ==
  /\ event.op = "unload_plugin"
  /\ pm_request.plugin = "A"
  /\ Faulty(pm_request.env, "A", "cleanup_raises")
  /\ CallsOf(pm_calls, "cleanup", "A") # {}
  /\ event.raised.cls = "PluginError"
  /\ "A" \in DOMAIN plugins /\ "A" \in metadata_cache /\ "A" \in DOMAIN file_watchers

\* C37 (as claimed) -- Plugin tables stay in step: after any sequence of
\* load_plugin, load_all_plugins, unload_plugin, reload_plugin and
\* check_updates, the registry, the metadata cache and the file-watch table
\* have exactly the same keys, also when a descriptor declares a name that
\* is not the base name of its module file; every plugin in the registry
\* was initialized by the call that put it there.
C37_Claim ==
  /\ DOMAIN plugins = metadata_cache
  /\ metadata_cache = DOMAIN file_watchers
  /\ \A key \in DOMAIN plugins :
       (plugins[key] = "new" /\ pm_request.op # "") =>
         \E i \in 1..Len(pm_calls) :
           pm_calls[i].call = "initialize" /\ descriptors[pm_calls[i].plugin].name = key

\* ======================================================================
\* Properties of the tool's last error
\* ======================================================================
\* C38 (as claimed) -- No stale error: in every reachable state the tool's
\* last error is present only if the status is error; a successful
\* initialize, execute or cleanup after an earlier failure does not leave
\* the old error visible.
C38_Claim ==
  /\ error # NoError => status = "error"
  /\ (/\ event.op \in {"initialize", "execute", "cleanup"}
      /\ event.phase = "exit"
      /\ event.raised = NoError
      /\ status \in {"ready", "cleaned"}) => error = NoError

\* ======================================================================
\* Properties of the jump back to the original entry point
\* ======================================================================
\* C39 (as claimed) -- Trampoline stays inside the new section: with
\* preserve_entry, for every payload length n > 0 and file alignment F, the
\* 5-byte jump is written at the raw offsets [PointerToRawData + n,
\* PointerToRawData + n + 5), this range lies within [PointerToRawData,
\* PointerToRawData + SizeOfRawData), and writing it changes neither the
\* total length of the image data nor any byte outside that range.
C39_Claim ==
  (/\ call_args.op = "_inject_new_section"
   /\ call_result.success
   /\ call_args.args[2] > 0
   /\ call_args.args[3].val["injection"].val["preserve_entry"] = Bool(TRUE)) =>
    LET n == call_args.args[2]
        new == call_result.pe.sections[Len(call_result.pe.sections)]
        at == new.PointerToRawData + n IN
    /\ Take(Drop(call_result.data, at), JumpSize) = Bytes("jmp", JumpSize)
    /\ at + JumpSize <= new.PointerToRawData + new.SizeOfRawData
    /\ Size(call_result.data) = Size(call_result.inserted)
    /\ Take(call_result.data, at) = Take(call_result.inserted, at)
    /\ Drop(call_result.data, at + JumpSize) = Drop(call_result.inserted, at + JumpSize)

\* ======================================================================
\* Properties of the Obfuscator's pe and script targets
\* ======================================================================
\* C40 (as claimed) -- Identity pass-through for the pe and script targets:
\* with target_type pe or script, obfuscate(input_path, output_path) on an
\* existing input file of any length, zero included, succeeds and writes
\* output bytes identical to the input; its progress ends at 5 of 5.
C40_Claim ==
  (/\ call_args.op = "obfuscate"
   /\ Subscriptable(call_args.args[1])
   /\ call_args.args[1].val["obfuscation"].val["target_type"] \in {Str("pe"), Str("script")}
   /\ call_args.args[2] # Absent) =>
    /\ event.outcome.value = Bool(TRUE)
    /\ call_result.output = call_args.args[2]
    /\ call_result.checkpoint = 5

====
